---- MODULE Spec2Model ----
(***************************************************************************)
(* A model of pymemc: a sharding memcached client for the binary protocol. *)
(*   pymc/chash.py       the consistent-hash ring                          *)
(*   pymemc/connpool.py  per-server connection pools, the retry wrapper    *)
(*   pymc/threadpool.py  the worker pool of the multi-operations           *)
(*   pymemc/pymemc.py    the client: codec, single-ops, multi-ops          *)
(* The memcached servers are the environment; they are modelled from the   *)
(* binary protocol as the client's code reads it.                          *)
(***************************************************************************)
EXTENDS Bags, Integers, Sequences, FiniteSets, TLC

(***************************************************************************)
(* Bounds of the model.                                                    *)
(***************************************************************************)
\* client calls made in one behaviour
MaxOps == 2
\* longest key list, and largest key/value map, handed to a multi-operation
MaxKeys == 3
\* requests per pipelined get_multi batch; stands for the 1000 of
\* chunk(group, 1000) at pymemc.py:445
ChunkSize == 2
\* the largest value of a counter; stands for the 2^64 - 1 of the unsigned
\* 64-bit body of an incr/decr response (struct.unpack('!Q', extra))
CounterMax == 3

(***************************************************************************)
(* Program constants.                                                      *)
(***************************************************************************)
MAX_KEY_SIZE == 250

F_pickle == 1
F_int == 2
F_long == 4
F_compressed == 8

R_no_error == 0
R_key_not_found == 1
R_key_exists == 2
R_value_too_large == 3
R_invalid_arguments == 4
R_items_not_stored == 5
R_incr_decr_on_non_numeric_value == 6
R_key_too_large == 7

M_get == 0
M_set == 1
M_add == 2
M_replace == 3
M_delete == 4
M_increment == 5
M_decrement == 6
M_getq == 9
M_append == 14
M_prepend == 15
M_setq == 17
M_addq == 18
M_replaceq == 19
M_deleteq == 20

\* ConnectionPool's default pool_size
POOL_SIZE == 5

(***************************************************************************)
(* The inputs of the model.                                                *)
(***************************************************************************)
\* Client(host_list): two servers; a node of the ring is the server's pool,
\* named here by the server's position in host_list.
host_list == <<1, 2>>
Servers == {host_list[i] : i \in DOMAIN host_list}

\* Keys are byte strings, named by the numbers 1 to 4: key 2 is as long as
\* a key may be, key 4 (BigKey) is one byte longer.
Keys == 1..4
BigKey == 4
KeyLen(k) == IF k = BigKey THEN MAX_KEY_SIZE + 1
             ELSE IF k = 2 THEN MAX_KEY_SIZE ELSE 5

\* The hashkey argument of the multi-operations: None, or the string 5.
None == 0
HashKeys == {None, 5}

\* The hashkeys that are strings: the empty string, and the string 5.
EmptyStr == 6
GivenHashKeys == {EmptyStr, 5}

\* A test of the hashkey that takes every hashkey as not given
hashkey_ignored(hk) == FALSE

\* `if hashkey:` and `hashkey or sister_keys[0]`: None and the empty string
\* are false.
Truthy(hk) == hk # None /\ hk # EmptyStr

\* Values handed to the client: a byte string, a byte string over the
\* server's item size limit, and a bool (an instance of int).
VStr == [t |-> "str", x |-> 1, big |-> FALSE]
VHuge == [t |-> "str", x |-> 2, big |-> TRUE]
VTrue == [t |-> "bool", x |-> 1, big |-> FALSE]
Values == {VStr, VHuge, VTrue}

(***************************************************************************)
(* pymc/chash.py: the ring.                                                *)
(***************************************************************************)
replicas == 2

\* "%s:%i" % (node, i): the string a replica of a node is hashed from. The
\* nodes of the client's ring are its pools, and a pool is formatted as
\* object.__repr__ does, by its class and its address in memory: node is
\* the number that tells the pool's string from the others'.
Label(node, i) == 100 + 10 * node + i

\* hashkey: md5 of a string, as a number. md5 is modelled as a fixed table
\* over the strings of the model (keys, hashkeys and replica labels), with
\* no two replica labels of the same digest.
hashkey(x) ==
    CASE x = Label(1, 0) -> 4
      [] x = Label(1, 1) -> 12
      [] x = Label(1, 2) -> 5
      [] x = Label(2, 0) -> 8
      [] x = Label(2, 1) -> 15
      [] x = Label(2, 2) -> 18
      [] x = Label(3, 0) -> 2
      [] x = Label(3, 1) -> 11
      [] x = Label(3, 2) -> 16
      [] x = 1 -> 3
      [] x = 2 -> 17
      [] x = 3 -> 6
      [] x = 4 -> 1
      [] x = 5 -> 13
      [] x = EmptyStr -> 10
      [] OTHER -> (7 * x) % 19

\* list.sort() on a list of numbers
RECURSIVE Insert(_, _)
Insert(s, x) ==
    IF s = <<>> THEN <<x>>
    ELSE IF x <= Head(s) THEN <<x>> \o s
    ELSE <<Head(s)>> \o Insert(Tail(s), x)

RECURSIVE SortList(_)
SortList(s) == IF s = <<>> THEN <<>> ELSE Insert(SortList(Tail(s)), Head(s))

Range(f) == {f[x] : x \in DOMAIN f}

\* ConsistentHash.__init__
EmptyHash == [ring |-> << >>, sorted_keys |-> << >>, single_node |-> TRUE]

\* ConsistentHash.all_nodes
all_nodes(h) == Range(h.ring)

\* An add_node that leaves sorted_keys in the order of the calls
add_node_unsorted(h, node) ==
    LET keys == [i \in 1..replicas |-> hashkey(Label(node, i - 1))]
        ring1 == [p \in DOMAIN h.ring \cup Range(keys) |->
                     IF p \in Range(keys) THEN node ELSE h.ring[p]]
    IN  [ring |-> ring1,
         sorted_keys |-> h.sorted_keys \o keys,
         single_node |-> IF Cardinality(Range(ring1)) > 1 THEN FALSE
                         ELSE h.single_node]

\* ConsistentHash.add_node
add_node(h, node) ==
    LET keys == [i \in 1..replicas |-> hashkey(Label(node, i - 1))]
        ring1 == [p \in DOMAIN h.ring \cup Range(keys) |->
                     IF p \in Range(keys) THEN node ELSE h.ring[p]]
        sorted1 == SortList(h.sorted_keys \o keys)
    IN  [ring |-> ring1,
         sorted_keys |-> sorted1,
         single_node |-> IF Cardinality(Range(ring1)) > 1 THEN FALSE
                         ELSE h.single_node]

\* bisect.bisect_right: the insertion point after the entries equal to x
bisect_right(a, x) == Cardinality({i \in DOMAIN a : a[i] <= x})

\* bisect.bisect_left on a sorted list: the 0-based insertion point
bisect_left(a, x) == Cardinality({i \in DOMAIN a : a[i] < x})

\* ConsistentHash.get_node
get_node(h, key) ==
    IF h.single_node THEN h.ring[h.sorted_keys[1]]
    ELSE LET ckey == hashkey(key) IN
         IF ckey > h.sorted_keys[Len(h.sorted_keys)]
         THEN h.ring[h.sorted_keys[1]]
         ELSE h.ring[h.sorted_keys[bisect_left(h.sorted_keys, ckey) + 1]]

\* Client.__init__: one pool per host, added to the ring in host_list order
RECURSIVE BuildHash(_, _)
BuildHash(h, hosts) ==
    IF hosts = <<>> THEN h
    ELSE BuildHash(add_node(h, Head(hosts)), Tail(hosts))

(***************************************************************************)
(* pymemc.py: keys and values.                                             *)
(***************************************************************************)
\* Client._encode_key: keys are byte strings, which encode() leaves as they
\* are; TRUE when the key is accepted, FALSE when MemcachedError is raised.
KeyOk(key) == ~(KeyLen(key) > MAX_KEY_SIZE)

HasFlag(flags, bit) == (flags \div bit) % 2 = 1

\* Client._compress / Client._decompress with compress_fn = decompress_fn =
\* None, the constructor's defaults.
Compress(bytes) == bytes
Decompress(bytes) == bytes

\* isinstance(value, int): bool is a subclass of int
IsInt(value) == value.t \in {"int", "bool"}

\* str(value) of a number: decimal digits for an int or a long, the name
\* "True" or "False" for a bool
StrOf(value) ==
    IF value.t = "bool" THEN [enc |-> "name", x |-> value.x, big |-> FALSE]
    ELSE [enc |-> "dec", x |-> value.x, big |-> FALSE]

\* Client._serialize: (flags, bytes)
Serialize(value) ==
    LET flags0 == IF value.t = "str" THEN 0
                  ELSE IF IsInt(value) THEN F_int
                  ELSE IF value.t = "long" THEN F_long
                  ELSE F_pickle
        bytes0 == IF value.t = "str"
                    THEN [enc |-> "raw", x |-> value.x, big |-> value.big]
                  ELSE IF IsInt(value) \/ value.t = "long" THEN StrOf(value)
                  ELSE [enc |-> "pickle", x |-> value.x, big |-> value.big]
    IN  IF HasFlag(flags0, F_int) \/ HasFlag(flags0, F_long)
        THEN [flags |-> flags0, bytes |-> bytes0]
        ELSE [flags |-> flags0 + F_compressed, bytes |-> Compress(bytes0)]

\* int(s) / long(s): ValueError unless s is a decimal numeral
ParsesAsNumber(bytes) == bytes.enc = "dec"

\* Client._deserialize raises (ValueError from int() or long())
DeserializeRaises(item) ==
    LET bytes == IF HasFlag(item.flags, F_compressed)
                 THEN Decompress(item.bytes) ELSE item.bytes
    IN  (HasFlag(item.flags, F_int) \/ HasFlag(item.flags, F_long))
        /\ ~ParsesAsNumber(bytes)

\* Client._deserialize: the value, when it does not raise
Deserialize(item) ==
    LET bytes == IF HasFlag(item.flags, F_compressed)
                 THEN Decompress(item.bytes) ELSE item.bytes
    IN  IF HasFlag(item.flags, F_int)
          THEN [t |-> "int", x |-> bytes.x, big |-> FALSE]
        ELSE IF HasFlag(item.flags, F_long)
          THEN [t |-> "long", x |-> bytes.x, big |-> FALSE]
        ELSE IF HasFlag(item.flags, F_pickle)
          THEN [t |-> "obj", x |-> bytes.x, big |-> bytes.big]
        ELSE [t |-> "str", x |-> bytes.x, big |-> bytes.big]

(***************************************************************************)
(* The state.                                                              *)
(***************************************************************************)
VARIABLES
    hash,       \* Client.hash: the ring (ring, sorted_keys, single_node)
    pools,      \* per server, ConnectionPool._queue: the idle connections
    store,      \* per server, the items the server holds
    tasks,      \* ThreadPool.tasks: the submitted tasks no worker has taken
    workers,    \* per worker thread, the task it executes, if any
    call,       \* the multi-operation in progress, if any
    ret,        \* how the last completed call ended
    nops,       \* calls made so far
    quits,      \* quit() calls made so far
    clients     \* other Client instances: the ring of each, and the
                \* endpoint of each pool in it

vars ==
    <<hash, pools, store, tasks, workers, call, ret, nops, quits, clients>>

\* ThreadPool(max_threads or len(host_list)): the workers, and the size of
\* the task queue
NumThreads == Len(host_list)
Workers == 1..NumThreads

(***************************************************************************)
(* The memcached server, as the binary protocol describes it: a quiet      *)
(* opcode answers only when the request fails (GETQ: only when it hits).   *)
(***************************************************************************)
QuietOps == {M_getq, M_setq, M_addq, M_replaceq, M_deleteq}

LoudOf(opcode) ==
    CASE opcode = M_getq -> M_get
      [] opcode = M_setq -> M_set
      [] opcode = M_addq -> M_add
      [] opcode = M_replaceq -> M_replace
      [] opcode = M_deleteq -> M_delete
      [] OTHER -> opcode

NoBytes == [enc |-> "none", x |-> 0, big |-> FALSE]
NoItem == [flags |-> 0, bytes |-> NoBytes]

\* The status the server answers a request with.
ServerStatus(st, req) ==
    LET op == LoudOf(req.opcode)
        has == req.key \in DOMAIN st
    IN  IF KeyLen(req.key) > MAX_KEY_SIZE THEN R_invalid_arguments
        ELSE IF op \in {M_get, M_delete}
          THEN (IF has THEN R_no_error ELSE R_key_not_found)
        ELSE IF op \in {M_set, M_add, M_replace} /\ req.item.bytes.big
          THEN R_value_too_large
        ELSE IF op = M_add /\ has THEN R_key_exists
        ELSE IF op = M_replace /\ ~has THEN R_key_not_found
        ELSE R_no_error

\* The items of the server once it has executed a request.
ServerStore(st, req) ==
    LET op == LoudOf(req.opcode)
    IN  IF ServerStatus(st, req) # R_no_error \/ op = M_get THEN st
        ELSE IF op = M_delete
          THEN [k \in DOMAIN st \ {req.key} |-> st[k]]
        ELSE [k \in DOMAIN st \cup {req.key} |->
                 IF k = req.key THEN req.item ELSE st[k]]

\* The response frames (none or one) the server sends for a request.
ServerResponse(st, req) ==
    LET status == ServerStatus(st, req)
        silent == IF LoudOf(req.opcode) = M_get THEN status = R_key_not_found
                  ELSE status = R_no_error
    IN  IF req.opcode \in QuietOps /\ silent THEN <<>>
        ELSE << [status |-> status, opaque |-> req.opaque,
                 item |-> IF LoudOf(req.opcode) = M_get /\ status = R_no_error
                          THEN st[req.key] ELSE NoItem] >>

\* The server executes the requests of one connection in the order received.
RECURSIVE ServerRun(_, _)
ServerRun(st, reqs) ==
    IF reqs = <<>> THEN [st |-> st, resps |-> <<>>]
    ELSE LET rest == ServerRun(ServerStore(st, Head(reqs)), Tail(reqs))
         IN  [st |-> rest.st,
              resps |-> ServerResponse(st, Head(reqs)) \o rest.resps]

(***************************************************************************)
(* pymemc/connpool.py: the pools. A connection is "open", or "closed" once *)
(* the server's side of it is gone.                                        *)
(***************************************************************************)
\* A get that hands out the first idle connection and leaves it idle
pool_peek(q) ==
    IF q # <<>> THEN [conn |-> Head(q), rest |-> q]
    ELSE [conn |-> "open", rest |-> <<>>]

\* ConnectionPool.get: [conn, rest]; a new connection when none is idle
PoolGet(q) ==
    IF q # <<>> THEN [conn |-> Head(q), rest |-> Tail(q)]
    ELSE [conn |-> "open", rest |-> <<>>]

\* A put that takes the queue for full one connection late
put_one_more(q, conn, maxsize) ==
    IF Len(q) <= maxsize THEN Append(q, conn) ELSE q

\* A put that finds room in any queue
put_unbounded(q, conn, maxsize) == Append(q, conn)

\* ConnectionPool.put on a queue made with that maxsize: the connection is
\* dropped when the queue is full
put(q, conn, maxsize) == IF Len(q) < maxsize THEN Append(q, conn) ELSE q

\* ConnectionPool.put on a pool of the Client, made without a pool_size
PoolPut(q, conn) == put(q, conn, POOL_SIZE)

\* A clear_pool that leaves the idle connections where they are
keep_pool(q) == q

\* ConnectionPool.clear_pool
clear_pool(q) == IF q # <<>> THEN <<>> ELSE q

(***************************************************************************)
(* pymemc.py: the single-key operations.                                   *)
(***************************************************************************)
\* A failure test that maps no status to an outcome: with it every non-zero
\* status is raised.
no_failure_test(op, status) == FALSE

\* The failure_test of each operation: the statuses reported as an outcome
\* (None, False, or a listed key) instead of an error.
failure_test(op, status) ==
    CASE op = "get" -> status = R_key_not_found
      [] op = "set" ->
            status = R_items_not_stored \/ status = R_key_exists
      [] op = "add" -> status = R_key_exists \/ status = R_key_exists
      [] op = "replace" ->
            status = R_key_not_found \/ status = R_key_exists
      [] op = "delete" ->
            status = R_key_not_found \/ status = R_key_exists
      [] op \in {"append", "prepend"} -> status = R_items_not_stored
      [] op \in {"set_multi", "add_multi"} -> status # R_no_error
      [] op = "replace_multi" ->
            status = R_key_not_found \/ status = R_key_exists
      [] OTHER -> FALSE

\* The opcode of the request a single-key operation, or the last request of
\* a pipelined batch, is sent with.
LoudOpcode(op) ==
    CASE op \in {"get", "get_multi"} -> M_get
      [] op \in {"set", "set_multi"} -> M_set
      [] op \in {"add", "add_multi"} -> M_add
      [] op \in {"replace", "replace_multi"} -> M_replace
      [] op \in {"delete", "delete_multi"} -> M_delete
      [] op = "append" -> M_append
      [] OTHER -> M_prepend

\* A batch whose requests all have the opcode of the last
always_loud(op) == LoudOpcode(op)

\* The opcode of the other requests of a pipelined batch.
QuietOpcode(op) ==
    CASE op = "get_multi" -> M_getq
      [] op = "set_multi" -> M_setq
      [] op = "add_multi" -> M_addq
      [] op = "replace_multi" -> M_replaceq
      [] OTHER -> M_deleteq

\* How a call ends: what it returns or raises, the request frames it wrote
\* and the errors that occurred while it ran.
RTrue == [kind |-> "True"]
RFalse == [kind |-> "False"]
RNone == [kind |-> "None"]
RValue(v) == [kind |-> "value", v |-> v]
RMap(m) == [kind |-> "map", m |-> m]
RList(l) == [kind |-> "list", l |-> l]

Returned(result, frames) ==
    [raised |-> FALSE, err |-> "none", status |-> R_no_error,
     result |-> result, frames |-> frames]
Raised(err, status, frames) ==
    [raised |-> TRUE, err |-> err, status |-> status,
     result |-> RNone, frames |-> frames]

\* The server at the other end: Memcached executes the request and answers
\* it; Answering(status, item) answers any request with that status and
\* item and keeps its items as they are.
Memcached == [kind |-> "memcached"]
Answering(status, item) ==
    [kind |-> "answering", status |-> status, item |-> item]

ServerAnswer(srv, st, req) ==
    IF srv.kind = "memcached"
    THEN LET r == ServerResponse(st, req)[1]
         IN  [st |-> ServerStore(st, req), status |-> r.status,
              item |-> r.item]
    ELSE [st |-> st, status |-> srv.status, item |-> srv.item]

\* socksend and sockresponse of one loud request on a connection: the
\* status and body of the answer of server srv, or closed when the read
\* returns no bytes.
Exchange(conn, st, req, srv) ==
    IF conn = "closed"
    THEN [closed |-> TRUE, st |-> st, status |-> R_no_error, item |-> NoItem]
    ELSE [closed |-> FALSE] @@ ServerAnswer(srv, st, req)

\* The outcome with the status of the response that was read
WithStatus(out, status) == [out EXCEPT !.status = status]

\* Client._s_helper for set, add and replace (serialize = True) and for
\* append and prepend (serialize = False): the pools and the store it
\* leaves, and how it ends.
s_helper(op, key, val, h, P, S, srv) ==
    LET item == IF op \in {"append", "prepend"}
                THEN [flags |-> 0,
                      bytes |-> [enc |-> "raw", x |-> val.x, big |-> val.big]]
                ELSE Serialize(val) IN
    IF ~KeyOk(key)
    THEN [pools |-> P, store |-> S,
          out |-> Raised("key_too_large", R_key_too_large, 0)]
    ELSE LET node == get_node(h, key)
             g == PoolGet(P[node])
             x == Exchange(g.conn, S[node],
                           [opcode |-> LoudOpcode(op), key |-> key,
                            item |-> item, opaque |-> 0], srv)
             S1 == [S EXCEPT ![node] = x.st]
             dropped == [P EXCEPT ![node] = g.rest]
             putback == [P EXCEPT ![node] = PoolPut(g.rest, g.conn)]
         IN  IF x.closed
               THEN [pools |-> dropped, store |-> S1,
                     out |-> Raised("closed", R_no_error, 1)]
             ELSE IF x.status # R_no_error
               THEN IF failure_test(op, x.status)
                    THEN [pools |-> putback, store |-> S1,
                          out |-> WithStatus(Returned(RFalse, 1), x.status)]
                    ELSE [pools |-> dropped, store |-> S1,
                          out |-> Raised("status", x.status, 1)]
             ELSE [pools |-> putback, store |-> S1,
                   out |-> Returned(RTrue, 1)]

\* Client._g_helper for get (unpack) and delete (unpack = False)
g_helper(op, key, h, P, S, srv) ==
    IF ~KeyOk(key)
    THEN [pools |-> P, store |-> S,
          out |-> Raised("key_too_large", R_key_too_large, 0)]
    ELSE LET node == get_node(h, key)
             g == PoolGet(P[node])
             x == Exchange(g.conn, S[node],
                           [opcode |-> LoudOpcode(op), key |-> key,
                            item |-> NoItem, opaque |-> 0], srv)
             S1 == [S EXCEPT ![node] = x.st]
             dropped == [P EXCEPT ![node] = g.rest]
             putback == [P EXCEPT ![node] = PoolPut(g.rest, g.conn)]
         IN  IF x.closed
               THEN [pools |-> dropped, store |-> S1,
                     out |-> Raised("closed", R_no_error, 1)]
             ELSE IF x.status # R_no_error
               THEN IF failure_test(op, x.status)
                    THEN [pools |-> putback, store |-> S1,
                          out |-> WithStatus(Returned(RNone, 1), x.status)]
                    ELSE [pools |-> putback, store |-> S1,
                          out |-> Raised("status", x.status, 1)]
             ELSE IF op = "delete"
               THEN [pools |-> putback, store |-> S1,
                     out |-> Returned(RTrue, 1)]
             ELSE IF DeserializeRaises(x.item)
               THEN [pools |-> putback, store |-> S1,
                     out |-> Raised("ValueError", R_no_error, 1)]
             ELSE [pools |-> putback, store |-> S1,
                   out |-> Returned(RValue(Deserialize(x.item)), 1)]

\* A delete that returns rval as _g_helper gives it
rval_only(out) == out

\* Client.delete: rval or False
delete_result(out) ==
    IF ~out.raised /\ out.result = RNone
    THEN [out EXCEPT !.result = RFalse] ELSE out

NoKeys == <<>>
NoMap == <<>>

\* The operation of a call and its arguments
SingleArgs(op, key, val) ==
    [op |-> op, key |-> key, val |-> val, keys |-> NoKeys, kvmap |-> NoMap,
     hashkey |-> None]
MultiArgs(op, keys, kvmap, hk) ==
    [op |-> op, key |-> None, val |-> VStr, keys |-> keys, kvmap |-> kvmap,
     hashkey |-> hk]

\* The record of a completed call: its arguments and how it ended. errs:
\* the kinds of error that occurred while it ran; refused: the keys of the
\* responses with a non-zero status that a multi-operation read; pre: the
\* servers' items when the call was made.
Done(args, out, errs, refused, pre) ==
    args @@ out @@ [errs |-> errs, refused |-> refused, pre |-> pre]

NoCall == [active |-> FALSE]
Idle == [busy |-> FALSE]

NoStore == [s \in Servers |-> << >>]

\* No other Client instance has been constructed.
NoClients == << >>

\* No call has completed, or the caller has taken the result of the last.
NoResult ==
    Done(SingleArgs("none", None, VStr), Returned(RNone, 0), {}, {},
         NoStore)

\* A call is made when none is in progress and the result of the last one
\* has been taken.
CanCall == ~call.active /\ ret.op = "none" /\ nops < MaxOps

OutErrs(out) == IF out.raised THEN {out.err} ELSE {}

\* Client.set / Client.add / Client.replace
Store(op, key, val) ==
    /\ CanCall
    /\ \E r \in {s_helper(op, key, val, hash, pools, store, Memcached)} :
           /\ pools' = r.pools
           /\ store' = r.store
           /\ ret' = Done(SingleArgs(op, key, val), r.out, OutErrs(r.out),
                          {}, store)
    /\ nops' = nops + 1
    /\ UNCHANGED <<clients, quits, hash, tasks, workers, call>>

\* Client.get
Get(key) ==
    /\ CanCall
    /\ \E r \in {g_helper("get", key, hash, pools, store, Memcached)} :
           /\ pools' = r.pools
           /\ store' = r.store
           /\ ret' = Done(SingleArgs("get", key, VStr), r.out,
                          OutErrs(r.out), {}, store)
    /\ nops' = nops + 1
    /\ UNCHANGED <<clients, quits, hash, tasks, workers, call>>

\* Client.delete
Delete(key) ==
    /\ CanCall
    /\ \E r \in {g_helper("delete", key, hash, pools, store, Memcached)} :
           /\ pools' = r.pools
           /\ store' = r.store
           /\ ret' = Done(SingleArgs("delete", key, VStr),
                          delete_result(r.out), OutErrs(r.out), {}, store)
    /\ nops' = nops + 1
    /\ UNCHANGED <<clients, quits, hash, tasks, workers, call>>

(***************************************************************************)
(* pymemc.py: the multi-key operations.                                    *)
(***************************************************************************)
\* id(sock) in the grouping loops: an idle connection is told from the
\* others by its pool and its place in the queue when the loop starts, a
\* connection the loop creates by its pool.
Tagged(P) ==
    [s \in Servers |->
        [i \in 1..Len(P[s]) |-> [tag |-> <<s, i>>, st |-> P[s][i]]]]
Untagged(T) == [s \in Servers |-> [i \in 1..Len(T[s]) |-> T[s][i].st]]

TaggedGet(q, node) ==
    IF q # <<>> THEN [conn |-> Head(q), rest |-> Tail(q)]
    ELSE [conn |-> [tag |-> <<node, 0>>, st |-> "open"], rest |-> <<>>]

\* sock_keygroup_map[id(sock)].append(key)
AddToGroup(groups, tag, key) ==
    IF \E i \in DOMAIN groups : groups[i].tag = tag
    THEN [i \in DOMAIN groups |->
             IF groups[i].tag = tag
             THEN [groups[i] EXCEPT !.keys = Append(@, key)]
             ELSE groups[i]]
    ELSE Append(groups, [tag |-> tag, keys |-> <<key>>])

\* The grouping loop of _gmulti_helper, _smulti_helper and delete_multi:
\* each key is encoded (ok is FALSE when that raises), a connection of its
\* server is taken from the pool and put back, and the key joins the group
\* of that connection.
RECURSIVE GroupKeys(_, _, _, _)
GroupKeys(keys, h, T, groups) ==
    IF keys = <<>> THEN [ok |-> TRUE, pools |-> T, groups |-> groups]
    ELSE IF ~KeyOk(Head(keys))
      THEN [ok |-> FALSE, pools |-> T, groups |-> groups]
    ELSE LET node == get_node(h, Head(keys))
             g == TaggedGet(T[node], node)
             T1 == [T EXCEPT ![node] = PoolPut(g.rest, g.conn)]
         IN  GroupKeys(Tail(keys), h, T1,
                       AddToGroup(groups, g.conn.tag, Head(keys)))

\* chunk(iterable, chunksize)
RECURSIVE chunk(_, _)
chunk(list, chunksize) ==
    IF list = <<>> THEN <<>>
    ELSE IF Len(list) <= chunksize THEN <<list>>
    ELSE <<SubSeq(list, 1, chunksize)>>
         \o chunk(SubSeq(list, chunksize + 1, Len(list)), chunksize)

\* kvmap.keys(): the keys of a dict, in the dict's order (here ascending)
RECURSIVE KeyList(_)
KeyList(D) ==
    IF D = {} THEN <<>>
    ELSE LET k == CHOOSE x \in D : \A y \in D : x <= y
         IN  <<k>> \o KeyList(D \ {k})

\* A task: per_host_fn / per_host_delete with its arguments
Task(keys, kvmap, hk) == [keys |-> keys, kvmap |-> kvmap, hashkey |-> hk]

RECURSIVE Flatten(_)
Flatten(ss) == IF ss = <<>> THEN <<>> ELSE Head(ss) \o Flatten(Tail(ss))

\* The tasks _gmulti_helper submits: one per chunk of each group
GetTasks(groups, hk) ==
    Flatten([i \in DOMAIN groups |->
                LET cs == chunk(groups[i], ChunkSize)
                IN  [j \in DOMAIN cs |-> Task(cs[j], NoMap, hk)]])

\* The tasks _smulti_helper and delete_multi submit: one per group
GroupTasks(groups, kvmap, hk) ==
    [i \in DOMAIN groups |-> Task(groups[i], kvmap, hk)]

\* The multi-operation in progress: what is left to submit, the shared
\* result container (response_map or the failure list), the request frames
\* written, the kinds of error that occurred in its tasks, (sent) the
\* servers a request frame was written to and (batches) for each task that
\* has run the opcode and opaque of its requests, the opaques of the
\* responses it read and how its read loop ended.
Started(op, keys, kvmap, hk, todo) ==
    [active |-> TRUE, op |-> op, keys |-> keys, kvmap |-> kvmap,
     hashkey |-> hk, todo |-> todo, rmap |-> << >>, failures |-> <<>>,
     frames |-> 0, errs |-> {}, pre |-> store, refused |-> {}, sent |-> {},
     batches |-> {}]

\* The caller's part of a multi-operation up to the first add_task: the
\* grouping, which raises on an oversized key when no hashkey is given.
CallMulti(op, keys, kvmap, hk) ==
    /\ CanCall
    /\ nops' = nops + 1
    /\ IF Truthy(hk)
       THEN /\ call' = Started(op, keys, kvmap, hk,
                         IF op = "get_multi" THEN GetTasks(<<keys>>, hk)
                         ELSE GroupTasks(<<keys>>, kvmap, hk))
            /\ UNCHANGED <<ret, pools>>
       ELSE \E g \in {GroupKeys(keys, hash, Tagged(pools), <<>>)} :
            \E groups \in {[i \in DOMAIN g.groups |-> g.groups[i].keys]} :
                /\ pools' = Untagged(g.pools)
                /\ IF g.ok
                   THEN /\ call' = Started(op, keys, kvmap, hk,
                                     IF op = "get_multi"
                                     THEN GetTasks(groups, hk)
                                     ELSE GroupTasks(groups, kvmap, hk))
                        /\ UNCHANGED ret
                   ELSE /\ call' = NoCall
                        /\ ret' = Done(MultiArgs(op, keys, kvmap, hk),
                                     Raised("key_too_large",
                                            R_key_too_large, 0),
                                     {"key_too_large"}, {}, store)
    /\ UNCHANGED <<clients, quits, hash, store, tasks, workers>>

\* Client.get_multi / Client.delete_multi
CallKeys(op, keys, hk) == CallMulti(op, keys, NoMap, hk)

\* Client.set_multi / Client.add_multi / Client.replace_multi
CallMap(op, kvmap, hk) == CallMulti(op, KeyList(DOMAIN kvmap), kvmap, hk)

\* ThreadPool.add_task: the caller's loop puts the next task on the queue,
\* which holds at most NumThreads tasks
Submit ==
    /\ call.active
    /\ call.todo # <<>>
    /\ Len(tasks) < NumThreads
    /\ tasks' = Append(tasks, Head(call.todo))
    /\ call' = [call EXCEPT !.todo = Tail(@)]
    /\ UNCHANGED <<clients, quits, hash, pools, store, workers, ret, nops>>

\* Worker.run takes a task; per_host_fn enters sock4key(hashkey or the
\* first key of the task) and holds a connection of that server. The
\* threads are alike: of the idle ones, the first is taken to get the task.
TaskStart(w) ==
    /\ ~workers[w].busy
    /\ \A v \in Workers : v < w => workers[v].busy
    /\ tasks # <<>>
    /\ \E t \in {Head(tasks)} :
       \E node \in {get_node(hash, IF Truthy(t.hashkey) THEN t.hashkey
                                   ELSE t.keys[1])} :
       \E g \in {PoolGet(pools[node])} :
           /\ workers' = [workers EXCEPT ![w] =
                 [busy |-> TRUE, blocked |-> FALSE, task |-> t,
                  node |-> node, conn |-> g.conn]]
           /\ pools' = [pools EXCEPT ![node] = g.rest]
    /\ tasks' = Tail(tasks)
    /\ UNCHANGED <<clients, quits, hash, store, call, ret, nops>>

\* The requests of a task: opaque i for the i-th key, the quiet opcode for
\* all but the last. get_multi and delete_multi send no value.
Requests(op, t) ==
    [i \in 1..Len(t.keys) |->
        [opcode |-> IF i = Len(t.keys) THEN LoudOpcode(op)
                    ELSE QuietOpcode(op),
         key |-> t.keys[i],
         item |-> IF op \in {"get_multi", "delete_multi"} THEN NoItem
                  ELSE Serialize(t.kvmap[t.keys[i]]),
         opaque |-> i - 1]]

\* A read loop that ends with the first response it reads
read_first(resps, keys, last_i, rmap) ==
    IF resps = <<>>
    THEN [end |-> "blocked", rmap |-> rmap, errs |-> {}, refused |-> {},
          seen |-> <<>>]
    ELSE [end |-> "done", rmap |-> rmap, errs |-> {}, refused |-> {},
          seen |-> <<Head(resps).opaque>>]

\* The while-loop of per_host_fn in _gmulti_helper: responses are read until
\* the one whose opaque is last_i; a response with status 0 is deserialized
\* into response_map under the key of its opaque. The loop ends "done", in
\* an exception, or "blocked" in a read no response will answer. seen: the
\* opaques of the responses it has read, in order.
RECURSIVE ReadGet(_, _, _, _)
ReadGet(resps, keys, last_i, rmap) ==
    IF resps = <<>>
    THEN [end |-> "blocked", rmap |-> rmap, errs |-> {}, refused |-> {},
          seen |-> <<>>]
    ELSE LET r == Head(resps)
             hit == r.status = R_no_error
         IN  IF hit /\ DeserializeRaises(r.item)
             THEN [end |-> "ValueError", rmap |-> rmap, errs |-> {},
                   refused |-> {}, seen |-> <<r.opaque>>]
             ELSE LET k == keys[r.opaque + 1]
                      rmap1 == IF hit
                               THEN [x \in DOMAIN rmap \cup {k} |->
                                       IF x = k THEN Deserialize(r.item)
                                       ELSE rmap[x]]
                               ELSE rmap
                      rest == IF r.opaque = last_i
                              THEN [end |-> "done", rmap |-> rmap1,
                                    errs |-> {}, refused |-> {},
                                    seen |-> <<>>]
                              ELSE ReadGet(Tail(resps), keys, last_i, rmap1)
                      ignored == ~hit /\ ~failure_test("get", r.status)
                  IN  [rest EXCEPT
                         !.errs = IF ignored THEN @ \cup {"status"} ELSE @,
                         !.refused = IF hit THEN @ ELSE @ \cup {k},
                         !.seen = <<r.opaque>> \o @]

\* A read loop that ends at once and records no failure
ReadNothing(op, resps, keys, last_i, failures) ==
    [end |-> "done", failures |-> failures, errs |-> {}, refused |-> {},
     seen |-> <<>>]

\* A turn of the loop that writes the list it had when the task began, the
\* empty one, with the key of a failing response added
read_overwriting(op, resps, keys, last_i, failures) ==
    IF resps = <<>>
    THEN [end |-> "blocked", failures |-> failures, errs |-> {},
          refused |-> {}, seen |-> <<>>]
    ELSE [end |-> IF Head(resps).opaque = last_i THEN "done" ELSE "blocked",
          failures |-> IF Head(resps).status # R_no_error
                       THEN <<keys[Head(resps).opaque + 1]>>
                       ELSE failures,
          errs |-> {}, refused |-> {}, seen |-> <<Head(resps).opaque>>]

\* A read loop that takes the i-th response to answer the i-th request
read_by_position(op, resps, keys, last_i, failures) ==
    LET failed == SelectSeq([i \in DOMAIN resps |-> i],
                            LAMBDA i : resps[i].status # R_no_error)
    IN  [end |-> IF \E i \in DOMAIN resps : resps[i].opaque = last_i
                 THEN "done" ELSE "blocked",
         failures |-> failures \o [j \in DOMAIN failed |-> keys[failed[j]]],
         errs |-> {}, refused |-> {},
         seen |-> [i \in DOMAIN resps |-> resps[i].opaque]]

\* The while-loop of per_host_fn in _smulti_helper and of per_host_delete:
\* the key of each response the failure test holds of joins failure_list.
RECURSIVE ReadFailures(_, _, _, _, _)
ReadFailures(op, resps, keys, last_i, failures) ==
    IF resps = <<>>
    THEN [end |-> "blocked", failures |-> failures, errs |-> {},
          refused |-> {}, seen |-> <<>>]
    ELSE LET r == Head(resps)
             failed == IF op = "delete_multi" THEN r.status # R_no_error
                       ELSE failure_test(op, r.status)
             failures1 == IF failed
                          THEN Append(failures, keys[r.opaque + 1])
                          ELSE failures
             rest == IF r.opaque = last_i
                     THEN [end |-> "done", failures |-> failures1,
                           errs |-> {}, refused |-> {}, seen |-> <<>>]
                     ELSE ReadFailures(op, Tail(resps), keys, last_i,
                                       failures1)
             ignored == r.status # R_no_error /\ ~failed
         IN  [rest EXCEPT
                !.errs = IF ignored THEN @ \cup {"status"} ELSE @,
                !.refused = IF r.status = R_no_error THEN @
                            ELSE @ \cup {keys[r.opaque + 1]},
                !.seen = <<r.opaque>> \o @]

\* A Worker.run without the try: an exception of the task ends the thread,
\* which marks no task done and takes no other.
dies_on_exception(wk, end) ==
    IF end = "done" THEN Idle ELSE [wk EXCEPT !.blocked = TRUE]

\* Worker.run after f(*args, **kargs): the exception of a task is logged
\* and swallowed, task_done is called in either case and the loop goes on
\* to tasks.get(); a task that does not end keeps its thread.
after_task(wk, end) ==
    IF end = "blocked" THEN [wk EXCEPT !.blocked = TRUE] ELSE Idle

\* per_host_fn / per_host_delete on the connection the worker holds: the
\* requests are written, the server answers, the responses are read. The
\* connection goes back to its pool when the task ends without exception;
\* Worker.run swallows an exception, and the connection is dropped.
TaskRun(w) ==
    /\ workers[w].busy
    /\ ~workers[w].blocked
    /\ \E t \in {workers[w].task}, node \in {workers[w].node},
          conn \in {workers[w].conn} :
       \E reqs \in {Requests(call.op, t)}, last_i \in {Len(t.keys) - 1} :
       \E run \in {ServerRun(store[node], reqs)} :
       \E resps \in {IF conn = "closed" THEN <<>> ELSE run.resps} :
       \E read \in {IF call.op = "get_multi"
                    THEN ReadGet(resps, t.keys, last_i, call.rmap)
                         @@ [failures |-> call.failures]
                    ELSE ReadFailures(call.op, resps, t.keys, last_i,
                                      call.failures)
                         @@ [rmap |-> call.rmap]} :
       \E end \in {IF conn = "closed" THEN "closed" ELSE read.end} :
           /\ store' = IF conn = "closed" THEN store
                       ELSE [store EXCEPT ![node] = run.st]
           /\ call' = [call EXCEPT
                         !.rmap = read.rmap,
                         !.failures = read.failures,
                         !.frames = @ + Len(reqs),
                         !.sent = IF reqs = <<>> THEN @ ELSE @ \cup {node},
                         !.batches = @ \cup
                            {[reqs |-> [i \in DOMAIN reqs |->
                                          [opcode |-> reqs[i].opcode,
                                           opaque |-> reqs[i].opaque]],
                              seen |-> IF conn = "closed" THEN <<>>
                                       ELSE read.seen,
                              end |-> end]},
                         !.refused = @ \cup read.refused,
                         !.errs = @ \cup read.errs \cup
                                  (IF end \in {"closed", "ValueError"}
                                   THEN {end} ELSE {})]
           /\ pools' = IF end = "done"
                       THEN [pools EXCEPT ![node] = PoolPut(@, conn)]
                       ELSE pools
           /\ workers' = [workers EXCEPT ![w] = after_task(@, end)]
    /\ UNCHANGED <<clients, quits, hash, tasks, ret, nops>>

\* The tasks a worker is executing, which leaves out those still queued
running_tasks == Cardinality({w \in Workers : workers[w].busy})

\* The tasks still on the queue, which a join does not wait for
queued_tasks == Len(tasks)

\* Queue.unfinished_tasks: put counts a task in, and task_done, which
\* Worker.run calls when the task has ended, counts it out: the tasks on
\* the queue and those a worker is executing.
unfinished_tasks ==
    Len(tasks) + Cardinality({w \in Workers : workers[w].busy})

\* ThreadPool.wait is tasks.join(), which returns once unfinished_tasks is
\* zero, and the multi-operation returns its result container.
Return ==
    /\ call.active
    /\ call.todo = <<>>
    /\ unfinished_tasks = 0
    /\ ret' = Done(MultiArgs(call.op, call.keys, call.kvmap, call.hashkey),
                   Returned(IF call.op = "get_multi" THEN RMap(call.rmap)
                            ELSE RList(call.failures), call.frames)
                   @@ [sent |-> call.sent],
                   call.errs, call.refused, call.pre)
    /\ call' = NoCall
    /\ UNCHANGED <<clients, quits, hash, pools, store, tasks, workers, nops>>

\* The caller takes the result of the call.
Consume ==
    /\ ret.op # "none"
    /\ ret' = NoResult
    /\ UNCHANGED <<clients, quits, hash, pools, store, tasks, workers, call,
                   nops>>

\* The arguments of the multi-operations: key lists in ascending order
\* (a key may occur more than once), and key/value maps of fewer than
\* MaxKeys keys
KeyLists ==
    {l \in UNION {[1..n -> Keys] : n \in 0..MaxKeys} :
        \A i \in DOMAIN l : i = 1 \/ l[i - 1] <= l[i]}
KVMaps ==
    UNION {[D -> Values] :
              D \in {X \in SUBSET Keys : Cardinality(X) < MaxKeys}}

(***************************************************************************)
(* The specification.                                                      *)
(***************************************************************************)
Init ==
    /\ hash = BuildHash(EmptyHash, host_list)
    /\ pools = [s \in Servers |-> <<>>]
    /\ store = [s \in Servers |-> << >>]
    /\ tasks = <<>>
    /\ workers = [w \in Workers |-> Idle]
    /\ call = NoCall
    /\ ret = NoResult
    /\ nops = 0
    /\ quits = 0
    /\ clients = NoClients

\* The caller makes its next call when it has the result of the last one;
\* the tasks of a multi-operation run in between.
Next ==
    \/ CanCall /\ \E op \in {"set", "add", "replace"}, k \in Keys,
                     v \in Values : Store(op, k, v)
    \/ CanCall /\ \E k \in Keys : Get(k)
    \/ CanCall /\ \E k \in Keys : Delete(k)
    \/ CanCall /\ \E op \in {"get_multi", "delete_multi"}, ks \in KeyLists,
                     hk \in HashKeys : CallKeys(op, ks, hk)
    \/ CanCall /\ \E op \in {"set_multi", "add_multi", "replace_multi"},
                     m \in KVMaps, hk \in HashKeys : CallMap(op, m, hk)
    \/ Consume
    \/ Submit
    \/ \E w \in Workers : TaskStart(w)
    \/ \E w \in Workers : TaskRun(w)
    \/ Return

Spec == Init /\ [][Next]_vars

(***************************************************************************)
(* The claims about the operations, as properties of Spec. ret is the      *)
(* completed call; ret.pre holds the servers' items when it was made.      *)
(***************************************************************************)

\* C1: get_multi(K) without a hashkey, all keys of K valid, against servers
\* that store the map M (key k at the server the ring gives for k, M[k] the
\* value whose serialized form is the stored item) returns the mapping
\* {k: M[k] for k in K if k in M}, and does not raise.
C1_GetMultiReturnsStoredMap ==
    (/\ ret.op = "get_multi"
     /\ ret.hashkey = None
     /\ \A i \in DOMAIN ret.keys : KeyOk(ret.keys[i]))
    => LET held(k) == ret.pre[get_node(hash, k)]
           M == [k \in {x \in Keys : x \in DOMAIN held(x)} |->
                    CHOOSE v \in Values : Serialize(v) = held(k)[k]]
       IN  /\ ~ret.raised
           /\ ret.result = RMap([k \in Range(ret.keys) \cap DOMAIN M |->
                                    M[k]])

\* C2: once set_multi(M) has returned the empty list the servers hold the
\* serialized form of M[k] under every key k of M, and get_multi of keys
\* that are all held (at the server of the hashkey when one is given)
\* returns exactly the values that were set under them.
C2_SetMultiThenGetMulti ==
    LET node(k) == get_node(hash, IF ret.hashkey # None THEN ret.hashkey
                                  ELSE k)
    IN  /\ (ret.op = "set_multi" /\ ~ret.raised /\ ret.result = RList(<<>>))
           => \A k \in DOMAIN ret.kvmap :
                 /\ k \in DOMAIN store[node(k)]
                 /\ store[node(k)][k] = Serialize(ret.kvmap[k])
        /\ (/\ ret.op = "get_multi"
            /\ \A k \in Range(ret.keys) : k \in DOMAIN ret.pre[node(k)])
           => /\ ~ret.raised
              /\ ret.result =
                   RMap([k \in Range(ret.keys) |->
                           CHOOSE v \in Values :
                              Serialize(v) = ret.pre[node(k)][k]])

\* C3: the list set_multi, add_multi and replace_multi return holds exactly
\* the keys whose request was answered with a non-zero status.
C3_MultiStoreListsRefusedKeys ==
    (ret.op \in {"set_multi", "add_multi", "replace_multi"} /\ ~ret.raised)
    => Range(ret.result.l) = ret.refused

\* C4 as stated: delete_multi returns the keys the server refused to
\* delete, the empty list when every input key was stored, and a list with
\* the input keys as its elements when none was stored.
C4_DeleteMultiAsStated ==
    (ret.op = "delete_multi" /\ ~ret.raised)
    => LET node(k) == get_node(hash, IF ret.hashkey # None
                                     THEN ret.hashkey ELSE k)
           K == Range(ret.keys)
       IN  /\ Range(ret.result.l) = ret.refused
           /\ (\A k \in K : k \in DOMAIN ret.pre[node(k)])
              => ret.result = RList(<<>>)
           /\ (\A k \in K : k \notin DOMAIN ret.pre[node(k)])
              => Range(ret.result.l) = K

\* C4 amended: delete_multi returns the keys the server refused to delete,
\* the empty list when every input key was stored and no key occurs twice
\* in the input, and a list with the input keys as its elements when none
\* was stored.
C4_DeleteMultiRefusedKeys ==
    (ret.op = "delete_multi" /\ ~ret.raised)
    => LET node(k) == get_node(hash, IF ret.hashkey # None
                                     THEN ret.hashkey ELSE k)
           K == Range(ret.keys)
       IN  /\ Range(ret.result.l) = ret.refused
           /\ (/\ \A k \in K : k \in DOMAIN ret.pre[node(k)]
               /\ Cardinality(K) = Len(ret.keys))
              => ret.result = RList(<<>>)
           /\ (\A k \in K : k \notin DOMAIN ret.pre[node(k)])
              => Range(ret.result.l) = K

\* Witness of C4: a delete_multi of two different stored keys has returned
\* the empty list and the keys are gone.
C4_Witness ==
    /\ ret.op = "delete_multi"
    /\ ~ret.raised
    /\ ret.keys = <<1, 2>>
    /\ ret.hashkey = None
    /\ \A k \in {1, 2} : k \in DOMAIN ret.pre[get_node(hash, k)]
    /\ ret.result = RList(<<>>)
    /\ \A k \in {1, 2} : k \notin DOMAIN store[get_node(hash, k)]

\* C5: after set(k, v) has returned True the server of k holds the
\* serialized form of v under k; get(k) of a held key returns the value
\* that was set, and get of a valid key that is not held returns None;
\* neither get raises.
C5_SetThenGet ==
    LET node == get_node(hash, ret.key)
    IN  /\ (ret.op = "set" /\ ~ret.raised /\ ret.result = RTrue)
           => /\ ret.key \in DOMAIN store[node]
              /\ store[node][ret.key] = Serialize(ret.val)
        /\ (ret.op = "get" /\ ret.key \in DOMAIN ret.pre[node])
           => /\ ~ret.raised
              /\ ret.result =
                   RValue(CHOOSE v \in Values :
                             Serialize(v) = ret.pre[node][ret.key])
        /\ (ret.op = "get" /\ KeyOk(ret.key)
              /\ ret.key \notin DOMAIN ret.pre[node])
           => (~ret.raised /\ ret.result = RNone)

\* C6: a call in which a validation error, a non-zero status that its
\* failure test does not map to an outcome, or a connection-closed error
\* occurred does not return normally: it raises.
C6_ErrorsPropagate ==
    (ret.op # "none"
       /\ ret.errs \cap {"key_too_large", "status", "closed"} # {})
    => ret.raised

\* C7: a call with a key longer than 250 bytes raises the validation error
\* and has written no request frame; the validation error is raised for no
\* other key (250 bytes are accepted).
C7_OversizedKeyRaisesBeforeAnyFrame ==
    LET ks == IF ret.op \in {"set", "add", "replace", "get", "delete"}
              THEN {ret.key} ELSE Range(ret.keys)
        oversized == \E k \in ks : KeyLen(k) > MAX_KEY_SIZE
    IN  (ret.op # "none")
        => /\ oversized
              => (ret.raised /\ ret.err = "key_too_large" /\ ret.frames = 0)
           /\ ret.err = "key_too_large" => oversized

(***************************************************************************)
(* The single-key operations against a server that may answer a request    *)
(* with any status of the protocol: what each operation makes of it.       *)
(***************************************************************************)
StatusCodes ==
    {R_no_error, R_key_not_found, R_key_exists, R_value_too_large,
     R_invalid_arguments, R_items_not_stored,
     R_incr_decr_on_non_numeric_value}

SingleOps == {"get", "set", "add", "replace", "delete", "append", "prepend"}

\* Client.get, set, add, replace, delete, append, prepend on the pools P
\* and the items S, server srv answering
Method(op, key, val, P, S, srv) ==
    IF op = "get" THEN g_helper(op, key, hash, P, S, srv)
    ELSE IF op = "delete"
      THEN LET r == g_helper(op, key, hash, P, S, srv)
           IN  [r EXCEPT !.out = delete_result(@)]
    ELSE s_helper(op, key, val, hash, P, S, srv)

\* A single-key operation whose request the server answers with status
\* (and, to a get it answers with status 0, the serialized form of val)
Reply(op, key, val, status) ==
    /\ CanCall
    /\ \E r \in {Method(op, key, val, pools, store,
                         Answering(status,
                                   IF op = "get" /\ status = R_no_error
                                   THEN Serialize(val) ELSE NoItem))} :
           /\ pools' = r.pools
           /\ store' = r.store
           /\ ret' = Done(SingleArgs(op, key, val), r.out, OutErrs(r.out),
                          {}, store)
    /\ nops' = nops + 1
    /\ UNCHANGED <<clients, quits, hash, tasks, workers, call>>

NextStatus ==
    \/ CanCall /\ \E op \in SingleOps, k \in Keys, v \in Values,
                     status \in StatusCodes : Reply(op, k, v, status)
    \/ Consume

SpecStatus == Init /\ [][NextStatus]_vars

\* C9: a status that is a semantic non-error is not raised: key-not-found
\* makes get return None, key-exists makes add return False, key-not-found
\* makes replace return False, items-not-stored makes append and prepend
\* return False.
C9_SemanticNonErrorsNotRaised ==
    LET outcome(result) == ~ret.raised /\ ret.result = result
    IN  (ret.op # "none" /\ ret.frames = 1)
        => /\ (ret.op = "get" /\ ret.status = R_key_not_found)
              => outcome(RNone)
           /\ (ret.op = "add" /\ ret.status = R_key_exists)
              => outcome(RFalse)
           /\ (ret.op = "replace" /\ ret.status = R_key_not_found)
              => outcome(RFalse)
           /\ (ret.op \in {"append", "prepend"}
                 /\ ret.status = R_items_not_stored)
              => outcome(RFalse)

\* Witness of C9: an append answered with items-not-stored has returned
\* False.
C9_Witness ==
    /\ ret.op = "append"
    /\ ret.frames = 1
    /\ ret.status = R_items_not_stored
    /\ ~ret.raised
    /\ ret.result = RFalse

\* C10: set, add and replace return False for items-not-stored, add also
\* for key-exists and replace also for key-not-found; every other non-zero
\* status raises an error that carries the status.
C10_StoreStatusMapping ==
    (ret.op \in {"set", "add", "replace"} /\ ret.frames = 1
       /\ ret.status # R_no_error)
    => LET boolean == {R_items_not_stored}
                      \cup (IF ret.op = "add" THEN {R_key_exists} ELSE {})
                      \cup (IF ret.op = "replace" THEN {R_key_not_found}
                            ELSE {})
       IN  IF ret.status \in boolean
           THEN ~ret.raised /\ ret.result = RFalse
           ELSE ret.raised /\ ret.err = "status"

(***************************************************************************)
(* connpool.py: instance_reconnect, the retry wrapper, around the          *)
(* single-key operations, with idle connections that go stale.             *)
(***************************************************************************)
WrappedOps == {"get", "set", "add", "replace", "delete"}

\* The client has been used: a pool may hold an idle connection.
InitRetry ==
    /\ hash = BuildHash(EmptyHash, host_list)
    /\ pools \in [Servers -> {<<>>, <<"open">>}]
    /\ store = NoStore
    /\ tasks = <<>>
    /\ workers = [w \in Workers |-> Idle]
    /\ call = NoCall
    /\ ret = NoResult
    /\ nops = 0
    /\ quits = 0
    /\ clients = NoClients

\* The server's side of the idle connections of server s goes away.
Stale(s) ==
    /\ \E i \in DOMAIN pools[s] : pools[s][i] = "open"
    /\ pools' = [pools EXCEPT ![s] = [i \in DOMAIN @ |-> "closed"]]
    /\ UNCHANGED <<clients, quits, hash, store, tasks, workers, call, ret,
                   nops>>

\* The result of a wrapped call: invocations counts the runs of the
\* method, idle holds the pools when the call was made.
Wrapped(args, out, errs, pre, idle, invocations) ==
    Done(args, out, errs, {}, pre)
    @@ [idle |-> idle, invocations |-> invocations]

\* wrapper: try: return method(self, *args, **kwargs); a
\* MemcachedConnectionClosedError is caught, any other outcome is the
\* wrapper's.
Invoke(op, key, val) ==
    /\ CanCall
    /\ \E r \in {Method(op, key, val, pools, store, Memcached)},
          args \in {SingleArgs(op, key, val)} :
           /\ pools' = r.pools
           /\ store' = r.store
           /\ IF r.out.raised /\ r.out.err = "closed"
              THEN /\ call' = [active |-> TRUE, phase |-> "caught",
                               args |-> args, pre |-> store, idle |-> pools]
                   /\ UNCHANGED ret
              ELSE /\ ret' = Wrapped(args, r.out, OutErrs(r.out), store,
                                     pools, 1)
                   /\ UNCHANGED call
    /\ nops' = nops + 1
    /\ UNCHANGED <<clients, quits, hash, tasks, workers>>

\* for pool in self.hash.all_nodes(): pool.clear_pool()
Recover ==
    /\ call.active
    /\ call.phase = "caught"
    /\ pools' = [s \in Servers |->
                    IF s \in all_nodes(hash) THEN clear_pool(pools[s])
                    ELSE pools[s]]
    /\ call' = [call EXCEPT !.phase = "cleared"]
    /\ UNCHANGED <<clients, quits, hash, store, tasks, workers, ret, nops>>

\* return method(self, *args, **kwargs): the second run, whose outcome is
\* the wrapper's
Retry ==
    /\ call.active
    /\ call.phase = "cleared"
    /\ \E a \in {call.args} :
       \E r \in {Method(a.op, a.key, a.val, pools, store, Memcached)} :
           /\ pools' = r.pools
           /\ store' = r.store
           /\ ret' = Wrapped(a, r.out, {"closed"} \cup OutErrs(r.out),
                             call.pre, call.idle, 2)
    /\ call' = NoCall
    /\ UNCHANGED <<clients, quits, hash, tasks, workers, nops>>

NextRetry ==
    \/ CanCall /\ \E op \in WrappedOps, k \in Keys, v \in Values :
                     Invoke(op, k, v)
    \/ Recover
    \/ Retry
    \/ \E s \in Servers : Stale(s)
    \/ Consume

SpecRetry == InitRetry /\ [][NextRetry]_vars

\* C8: a wrapped call whose method raises connection-closed (its key is
\* valid and the connection it takes from the pool is stale) clears the
\* idle connections of every pool before the method runs again; the method
\* runs twice then and once otherwise, and the outcome of the call, an
\* error included, is that of the second run on the cleared pools.
C8_RetryClearsEveryPoolOnce ==
    /\ (call.active /\ call.phase = "cleared")
       => \A s \in Servers : pools[s] = <<>>
    /\ (ret.op # "none")
       => LET node == get_node(hash, ret.key)
              stale == /\ KeyOk(ret.key)
                       /\ ret.idle[node] # <<>>
                       /\ Head(ret.idle[node]) = "closed"
              second == Method(ret.op, ret.key, ret.val,
                               [s \in Servers |-> <<>>], ret.pre,
                               Memcached).out
          IN  /\ ret.invocations = IF stale THEN 2 ELSE 1
              /\ stale => /\ ret.raised = second.raised
                          /\ ret.err = second.err
                          /\ ret.result = second.result

\* Witness of C8: a wrapped call made when both pools held a stale
\* connection ran its method twice and raised the error of the second run.
C8_Witness ==
    /\ ret.op # "none"
    /\ \A s \in Servers : ret.idle[s] = <<"closed">>
    /\ ret.invocations = 2
    /\ ret.raised
    /\ ret.err = "status"
    /\ \A s \in Servers : pools[s] = <<>>

(***************************************************************************)
(* The multi-operations called with a hashkey that is a string.            *)
(***************************************************************************)
\* Key/value maps whose values are plain strings
StrMaps == {m \in KVMaps : \A k \in DOMAIN m : m[k] = VStr}

NextColocate ==
    \/ CanCall /\ \E op \in {"get_multi", "delete_multi"}, ks \in KeyLists,
                     hk \in GivenHashKeys : CallKeys(op, ks, hk)
    \/ CanCall /\ \E op \in {"set_multi", "add_multi", "replace_multi"},
                     m \in StrMaps, hk \in GivenHashKeys : CallMap(op, m, hk)
    \/ Consume
    \/ Submit
    \/ \E w \in Workers : TaskStart(w)
    \/ \E w \in Workers : TaskRun(w)
    \/ Return

SpecColocate == Init /\ [][NextColocate]_vars

\* The connection a task of the call in progress holds, and the servers the
\* completed call wrote a request to, are of the server the ring gives for
\* the hashkey.
SentToServerOf(hk) ==
    /\ call.active
       => /\ call.hashkey = hk
             => \A w \in Workers :
                   workers[w].busy
                   => workers[w].node = get_node(hash, hk)
          /\ call.hashkey = hk => call.sent \subseteq {get_node(hash, hk)}
    /\ (ret.op # "none" /\ ~ret.raised /\ ret.hashkey = hk)
       => ret.sent \subseteq {get_node(hash, hk)}

Endpoints == {"a", "b"}

\* The addresses in memory a pool may be created at
Addresses == 1..3

ClientIds == 1..2

\* The strings that are looked up: keys, hashkeys and, for a digest that is
\* a hash-point of the ring, the label of a replica
LookupKeys == Keys \cup GivenHashKeys \cup {Label(a, 0) : a \in Addresses}

\* A client before the loop of Client.__init__: hash is its ring, endpoint
\* the endpoint of each pool it has created, by the pool's address
NewClient == [hash |-> EmptyHash, endpoint |-> << >>]

InitRing ==
    /\ hash = BuildHash(EmptyHash, host_list)
    /\ pools = [s \in Servers |-> <<>>]
    /\ store = NoStore
    /\ tasks = <<>>
    /\ workers = [w \in Workers |-> Idle]
    /\ call = NoCall
    /\ ret = NoResult
    /\ nops = 0
    /\ quits = 0
    /\ clients = [c \in ClientIds |-> NewClient]

\* A round of the loop of Client.__init__ in client c: the pool of endpoint
\* e is created, at address a, and added to the ring.
Register(c, e, a) ==
    /\ e \notin Range(clients[c].endpoint)
    /\ a \notin DOMAIN clients[c].endpoint
    /\ clients' = [clients EXCEPT ![c] =
          [hash |-> add_node(@.hash, a),
           endpoint |-> [x \in DOMAIN @.endpoint \cup {a} |->
                           IF x = a THEN e ELSE @.endpoint[x]]]]
    /\ UNCHANGED <<hash, pools, store, tasks, workers, call, ret, nops,
                   quits>>

\* hash.get_node(key) in client c, as sock4key calls it: ret holds the ring
\* that was asked and the node it gave.
Lookup(c, key) ==
    /\ clients[c].hash.sorted_keys # <<>>
    /\ ret' = [op |-> "get_node", client |-> c, key |-> key,
               hash |-> clients[c].hash,
               node |-> get_node(clients[c].hash, key)]
    /\ UNCHANGED <<hash, pools, store, tasks, workers, call, nops, quits,
                   clients>>

NextRing ==
    \/ \E c \in ClientIds, e \in Endpoints, a \in Addresses :
          Register(c, e, a)
    \/ \E c \in ClientIds, k \in LookupKeys : Lookup(c, k)

SpecRing == InitRing /\ [][NextRing]_vars

Min(S) == CHOOSE x \in S : \A y \in S : x <= y

\* C12: on a ring that is not empty, the lookup of a key returns a
\* registered node: the one mapped from the smallest hash-point that is
\* greater than or equal to the key's hash, or the one mapped from the
\* smallest hash-point of the ring when the key's hash is greater than
\* every hash-point.
C12_LookupReturnsSuccessor ==
    (ret.op = "get_node")
    => LET points == DOMAIN ret.hash.ring
           above == {p \in points : p >= hashkey(ret.key)}
           point == IF above # {} THEN Min(above) ELSE Min(points)
       IN  /\ ret.node \in all_nodes(ret.hash)
           /\ ret.node \in DOMAIN clients[ret.client].endpoint
           /\ ret.node = ret.hash.ring[point]

\* Witness of C12: on a ring of two nodes, the lookup of a key whose hash
\* is greater than every hash-point gave the node of the smallest
\* hash-point.
C12_Witness ==
    /\ ret.op = "get_node"
    /\ Cardinality(all_nodes(ret.hash)) = 2
    /\ \A p \in DOMAIN ret.hash.ring : hashkey(ret.key) > p
    /\ ret.node = ret.hash.ring[Min(DOMAIN ret.hash.ring)]

\* C13: two clients that have registered the same set of endpoints, in
\* whatever order, look every key up to the same endpoint.
C13_RegistrationOrderIrrelevant ==
    \A c, d \in ClientIds :
        (/\ Range(clients[c].endpoint) = Range(clients[d].endpoint)
         /\ Range(clients[c].endpoint) # {})
        => \A k \in LookupKeys :
              clients[c].endpoint[get_node(clients[c].hash, k)]
              = clients[d].endpoint[get_node(clients[d].hash, k)]

(***************************************************************************)
(* pymemc.py: quit, flush_all, noop, stats and version, which iterate over *)
(* hash.all_nodes().                                                       *)
(***************************************************************************)
FanoutOps == {"quit", "flush_all", "noop", "stats", "version"}

\* The objects of the client and the methods they have: the nodes of the
\* ring are the SocketConnectionPool objects Client.__init__ registered.
PoolObject(s) == [class |-> "SocketConnectionPool", server |-> s]
HasAttr(obj, name) ==
    IF obj.class = "socket"
    THEN name \in {"sendall", "recv", "getpeername", "close"}
    ELSE name \in {"get", "put", "clear_pool"}

\* list(set(self.ring.values())), as objects
NodeObjects(h) ==
    LET nodes == KeyList(all_nodes(h))
    IN  [i \in DOMAIN nodes |-> PoolObject(nodes[i])]

NoRequests == [s \in Servers |-> 0]

\* for sock in self.hash.all_nodes(): socksend(sock, ...); sockresponse(sock)
\* of quit, flush_all and noop: sock.sendall raises AttributeError on an
\* object without that method; on a socket the request is written and the
\* server answers it with status 0. reqs counts the requests written, by
\* server.
RECURSIVE fanout(_, _)
fanout(socks, reqs) ==
    LET frames == Cardinality({s \in Servers : reqs[s] > 0})
    IN  IF socks = <<>> THEN [out |-> Returned(RTrue, frames), reqs |-> reqs]
        ELSE IF ~HasAttr(Head(socks), "sendall")
          THEN [out |-> Raised("AttributeError", R_no_error, frames),
                reqs |-> reqs]
        ELSE fanout(Tail(socks),
                    [reqs EXCEPT ![Head(socks).server] = @ + 1])

\* Client.quit / Client.flush_all / Client.noop
Fanout(op) ==
    /\ CanCall
    /\ \E r \in {fanout(NodeObjects(hash), NoRequests)} :
           ret' = Done(SingleArgs(op, None, VStr), r.out, OutErrs(r.out), {},
                       store)
                  @@ [reqs |-> r.reqs, nth |-> quits + 1]
    /\ quits' = IF op = "quit" THEN quits + 1 ELSE quits
    /\ nops' = nops + 1
    /\ UNCHANGED <<clients, hash, pools, store, tasks, workers, call>>

\* Client.stats / Client.version up to the first add_task: one task
\* per_host_stats / per_host_version for each node
FanoutCall(op) ==
    /\ CanCall
    /\ \E socks \in {NodeObjects(hash)} :
           call' = Started(op, NoKeys, NoMap, None,
                           [i \in DOMAIN socks |-> [sock |-> socks[i]]])
                   @@ [reqs |-> NoRequests]
    /\ nops' = nops + 1
    /\ UNCHANGED <<clients, quits, hash, pools, store, tasks, workers, ret>>

\* Worker.run takes a task per_host_stats / per_host_version and runs it:
\* socksend raises AttributeError on an object without sendall, which
\* Worker.run logs; on a socket the request is written and the answer of
\* the server is put into rmap under the socket's peer name.
FanTask(w) ==
    /\ ~workers[w].busy
    /\ \A v \in Workers : v < w => workers[v].busy
    /\ tasks # <<>>
    /\ \E sock \in {Head(tasks).sock} :
           call' = IF ~HasAttr(sock, "sendall")
                   THEN [call EXCEPT !.errs = @ \cup {"AttributeError"}]
                   ELSE [call EXCEPT
                           !.reqs[sock.server] = @ + 1,
                           !.frames = @ + 1,
                           !.rmap = [s \in DOMAIN @ \cup {sock.server} |->
                                        call.op]]
    /\ tasks' = Tail(tasks)
    /\ UNCHANGED <<clients, quits, hash, pools, store, workers, ret, nops>>

\* ThreadPool.wait returns; stats and version return the result map.
FanoutReturn ==
    /\ call.active
    /\ call.todo = <<>>
    /\ tasks = <<>>
    /\ ret' = Done(SingleArgs(call.op, None, VStr),
                   Returned(RMap(call.rmap), call.frames), call.errs, {},
                   call.pre)
              @@ [reqs |-> call.reqs, nth |-> quits]
    /\ call' = NoCall
    /\ UNCHANGED <<clients, quits, hash, pools, store, tasks, workers, nops>>

NextFanout ==
    \/ CanCall /\ \E op \in {"set", "add", "replace"}, k \in Keys,
                     v \in Values : Store(op, k, v)
    \/ CanCall /\ \E k \in Keys : Get(k)
    \/ CanCall /\ \E op \in {"quit", "flush_all", "noop"} : Fanout(op)
    \/ CanCall /\ \E op \in {"stats", "version"} : FanoutCall(op)
    \/ Submit
    \/ \E w \in Workers : FanTask(w)
    \/ FanoutReturn
    \/ Consume

SpecFanout == Init /\ [][NextFanout]_vars

\* C14: each call of quit, flush_all, noop, stats or version sends its
\* request exactly once to every server of the ring, and the mapping stats
\* and version return has exactly one entry for each server of the ring.
C14_FanoutReachesEveryServerOnce ==
    (ret.op \in FanoutOps)
    => /\ \A s \in all_nodes(hash) : ret.reqs[s] = 1
       /\ ret.op \in {"stats", "version"}
          => /\ ~ret.raised
             /\ DOMAIN ret.result.m = all_nodes(hash)

\* C15: the first quit() of a client returns True; the second quit() of the
\* same client raises MemcachedError, the error of a read that returns no
\* bytes.
C15_SecondQuitRaises ==
    (ret.op = "quit")
    => /\ ret.nth = 1 => (~ret.raised /\ ret.result = RTrue)
       /\ ret.nth = 2 => (ret.raised /\ ret.err = "closed")

(***************************************************************************)
(* Further claims about the operations, as properties of Spec.             *)
(***************************************************************************)

\* C16: delete(k) of a stored key returns True and removes the key, so that
\* a repeated delete(k), of a key that is not stored then, returns False
\* and changes nothing, and a following get(k) returns None; neither delete
\* raises.
C16_DeleteTwice ==
    LET node == get_node(hash, ret.key)
    IN  /\ (ret.op = "delete" /\ ret.key \in DOMAIN ret.pre[node])
           => /\ ~ret.raised
              /\ ret.result = RTrue
              /\ ret.key \notin DOMAIN store[node]
        /\ (ret.op = "delete" /\ KeyOk(ret.key)
              /\ ret.key \notin DOMAIN ret.pre[node])
           => /\ ~ret.raised
              /\ ret.result = RFalse
              /\ store = ret.pre
        /\ (ret.op = "get" /\ KeyOk(ret.key)
              /\ ret.key \notin DOMAIN store[node])
           => (~ret.raised /\ ret.result = RNone)

\* Witness of C16: the delete of a stored key has returned True and the
\* key is gone.
C16_Witness ==
    /\ ret.op = "delete"
    /\ ret.key \in DOMAIN ret.pre[get_node(hash, ret.key)]
    /\ ~ret.raised
    /\ ret.result = RTrue
    /\ ret.key \notin DOMAIN store[get_node(hash, ret.key)]

(***************************************************************************)
(* pymemc.py: incr and decr. The server keeps a counter as the decimal     *)
(* digits of an unsigned 64-bit number: an increment wraps around, a       *)
(* decrement stops at 0, and an item that is not a numeral is refused.     *)
(***************************************************************************)
\* Values that are numbers: an int, and the largest counter, a long
VInt == [t |-> "int", x |-> 2, big |-> FALSE]
VMax == [t |-> "long", x |-> CounterMax, big |-> FALSE]

\* The delta and initial arguments, which _id packs as signed 64-bit
\* numbers
Deltas == {1, 2}
Initials == {0, 1}

\* The server holds a numeral under the key
Numeric(item) == item.bytes.enc = "dec"

\* The server executes an incr/decr request: the items it holds then, the
\* status and the 64-bit body of its response.
ServerCounter(st, req) ==
    IF req.key \notin DOMAIN st
    THEN [st |-> [k \in DOMAIN st \cup {req.key} |->
                    IF k = req.key
                    THEN [flags |-> 0,
                          bytes |-> [enc |-> "dec", x |-> req.initial,
                                     big |-> FALSE]]
                    ELSE st[k]],
          status |-> R_no_error, value |-> req.initial]
    ELSE IF ~Numeric(st[req.key])
      THEN [st |-> st, status |-> R_incr_decr_on_non_numeric_value,
            value |-> 0]
    ELSE LET old == st[req.key].bytes.x
             new == IF req.opcode = M_increment
                    THEN (old + req.delta) % (CounterMax + 1)
                    ELSE IF req.delta > old THEN 0 ELSE old - req.delta
         IN  [st |-> [st EXCEPT ![req.key].bytes.x = new],
              status |-> R_no_error, value |-> new]

\* An outcome that takes the body of any response for the new value
counter_unchecked(a) == Returned(RValue(a.value), 1)

\* if status != R._no_error: raise MemcachedError; value, =
\* struct.unpack('!Q', extra); return value
counter_outcome(a) ==
    IF a.status # R_no_error THEN Raised("status", a.status, 1)
    ELSE Returned(RValue(a.value), 1)

\* Client.incr / Client.decr: the pools and the store the call leaves, and
\* how it ends. The connection is back in its pool before the status is
\* looked at.
counter(op, key, delta, initial, h, P, S) ==
    IF ~KeyOk(key)
    THEN [pools |-> P, store |-> S,
          out |-> Raised("key_too_large", R_key_too_large, 0)]
    ELSE LET node == get_node(h, key)
             g == PoolGet(P[node])
             a == ServerCounter(S[node],
                    [opcode |-> IF op = "incr" THEN M_increment
                                ELSE M_decrement,
                     key |-> key, delta |-> delta, initial |-> initial])
         IN  IF g.conn = "closed"
             THEN [pools |-> [P EXCEPT ![node] = g.rest], store |-> S,
                   out |-> Raised("closed", R_no_error, 1)]
             ELSE [pools |-> [P EXCEPT ![node] = PoolPut(g.rest, g.conn)],
                   store |-> [S EXCEPT ![node] = a.st],
                   out |-> WithStatus(counter_outcome(a), a.status)]

\* Client.incr(key, delta=delta, initial=initial) and Client.decr
Counter(op, key, delta, initial) ==
    /\ CanCall
    /\ \E r \in {counter(op, key, delta, initial, hash, pools, store)} :
           /\ pools' = r.pools
           /\ store' = r.store
           /\ ret' = Done(SingleArgs(op, key, VStr), r.out, OutErrs(r.out),
                          {}, store)
                     @@ [delta |-> delta, initial |-> initial]
    /\ nops' = nops + 1
    /\ UNCHANGED <<clients, quits, hash, tasks, workers, call>>

NextCounter ==
    \/ CanCall /\ \E op \in {"incr", "decr"}, k \in Keys, d \in Deltas,
                     n \in Initials : Counter(op, k, d, n)
    \/ CanCall /\ \E k \in Keys, v \in {VStr, VInt, VMax} :
                     Store("set", k, v)
    \/ Consume

SpecCounter == Init /\ [][NextCounter]_vars

\* The number the server holds under the key of the call when the call is
\* made
Previous == ret.pre[get_node(hash, ret.key)][ret.key].bytes.x

\* The key of the call is held when the call is made, as a numeral or not
HeldBefore == ret.key \in DOMAIN ret.pre[get_node(hash, ret.key)]
NumeralBefore ==
    HeldBefore /\ Numeric(ret.pre[get_node(hash, ret.key)][ret.key])

\* incr or decr of a key that is not stored creates it with the value
\* initial and returns initial; a response with a non-zero status raises.
CreatesOrRaises ==
    /\ ~HeldBefore
       => /\ ~ret.raised
          /\ ret.result = RValue(ret.initial)
          /\ store[get_node(hash, ret.key)][ret.key].bytes.x = ret.initial
    /\ ret.status # R_no_error => ret.raised

\* C17 as stated: incr of a key that is not stored creates it with initial
\* and returns initial; a later incr(key, delta=d) returns the previous
\* value plus d and a later decr(key, delta=d) the previous value minus d;
\* a response with a non-zero status raises.
C17_CounterAsStated ==
    (ret.op \in {"incr", "decr"} /\ KeyOk(ret.key))
    => /\ CreatesOrRaises
       /\ NumeralBefore
          => /\ ~ret.raised
             /\ ret.result = RValue(IF ret.op = "incr"
                                    THEN Previous + ret.delta
                                    ELSE Previous - ret.delta)

\* C17 amended: incr of a key that is not stored creates it with initial
\* and returns initial; a later incr(key, delta=d) returns the previous
\* value plus d, modulo 2^64, and a later decr(key, delta=d) the previous
\* value minus d, or 0 when d is greater than the previous value; a
\* response with a non-zero status raises.
C17_CounterWrapsAndStopsAtZero ==
    (ret.op \in {"incr", "decr"} /\ KeyOk(ret.key))
    => /\ CreatesOrRaises
       /\ NumeralBefore
          => /\ ~ret.raised
             /\ ret.result =
                  RValue(IF ret.op = "incr"
                         THEN (Previous + ret.delta) % (CounterMax + 1)
                         ELSE IF ret.delta > Previous THEN 0
                         ELSE Previous - ret.delta)

\* Witness of C17: an incr by 1 of a counter that incr created with the
\* value 1 has returned 2.
C17_Witness ==
    /\ ret.op = "incr"
    /\ NumeralBefore
    /\ ret.pre[get_node(hash, ret.key)][ret.key].flags = 0
    /\ Previous = 1
    /\ ret.delta = 1
    /\ ~ret.raised
    /\ ret.result = RValue(2)

(***************************************************************************)
(* pymemc.py: _serialize and _deserialize of a client constructed with the *)
(* defaults (compress_fn = decompress_fn = None), as functions.            *)
(***************************************************************************)
\* A value that is neither a string nor a number
VObj == [t |-> "obj", x |-> 1, big |-> FALSE]

CodecValues == {VStr, VHuge, VInt, VMax, VObj, VTrue}

\* The (flags, bytes) a server may answer a get with
Items ==
    [flags : 0..15,
     bytes : [enc : {"raw", "dec", "name", "pickle"}, x : 1..2,
              big : {FALSE}]]

\* self._deserialize(value, flags): how it ends. serialized: the item is
\* what _serialize gave for value.
Decoded(serialized, value, item) ==
    [op |-> "deserialize", serialized |-> serialized, value |-> value,
     item |-> item,
     raised |-> DeserializeRaises(item),
     result |-> IF DeserializeRaises(item) THEN RNone
                ELSE RValue(Deserialize(item))]

\* flags, value = self._serialize(value)
Encode(v) ==
    /\ ret' = [op |-> "serialize", value |-> v, item |-> Serialize(v)]
    /\ UNCHANGED <<clients, quits, hash, pools, store, tasks, workers, call,
                   nops>>

\* self._deserialize of what _serialize has returned
Decode ==
    /\ ret.op = "serialize"
    /\ ret' = Decoded(TRUE, ret.value, ret.item)
    /\ UNCHANGED <<clients, quits, hash, pools, store, tasks, workers, call,
                   nops>>

\* self._deserialize of an item some client has stored
DecodeItem(item) ==
    /\ ret' = Decoded(FALSE, VStr, item)
    /\ UNCHANGED <<clients, quits, hash, pools, store, tasks, workers, call,
                   nops>>

NextCodec ==
    \/ \E v \in CodecValues : Encode(v)
    \/ Decode
    \/ \E item \in Items : DecodeItem(item)

SpecCodec == Init /\ [][NextCodec]_vars

\* C18: for every value v (a string, an int, a long or another object that
\* can be serialized), with no compressor configured, _deserialize of the
\* (bytes, flags) that _serialize(v) gives returns v.
C18_SerializeRoundTrip ==
    (ret.op = "deserialize" /\ ret.serialized)
    => (~ret.raised /\ ret.result = RValue(ret.value))

\* C19: with no compressor configured no serialized value carries the
\* COMPRESSED flag, and a value serialized as INT or LONG never carries
\* it.
C19_CompressedOnlyWhenCompressed ==
    (ret.op = "serialize") => ~HasFlag(ret.item.flags, F_compressed)

(***************************************************************************)
(* The pipelined batches of the multi-operations, as a property of Spec.   *)
(***************************************************************************)

C21_ReturnsAfterEveryTask ==
    /\ ~call.active
       => (tasks = <<>> /\ \A w \in Workers : workers[w] = Idle)
    /\ (ret.op \in {"get_multi", "delete_multi", "set_multi", "add_multi",
                    "replace_multi"} /\ ~ret.raised)
       => ret.frames = Len(ret.keys)

\* Witness of C21: a get_multi over keys of both servers has returned, after
\* its two tasks ran, and the workers are idle again.
C21_Witness ==
    /\ ret.op = "get_multi"
    /\ ~ret.raised
    /\ ret.sent = Servers
    /\ ret.frames = 2
    /\ tasks = <<>>
    /\ \A w \in Workers : workers[w] = Idle

(***************************************************************************)
(* connpool.py on its own: threads (callers and workers) that enter and    *)
(* leave pooled_connection on the pools of the servers, and clear the      *)
(* pools, in any interleaving. Here a connection is the id() of its socket *)
(* object, pools[s] the queue of the idle ones, workers the bag of the     *)
(* connections the threads inside a block hold, one copy for each thread   *)
(* that holds it, and ret the exit from a block that has just happened.    *)
(***************************************************************************)
\* ConnectionPool(klass, pool_size=...): the room of the pools made here,
\* which stands for the 5 of a pool made without a pool_size
pool_size == 2

\* One thread more than a pool has room for idle connections
NumCallers == pool_size + 1

\* The connections the pools have idle
IdleConns == UNION {{pools[s][i] : i \in DOMAIN pools[s]} : s \in Servers}

\* klass(*args, **kwargs) in ConnectionPool.get: a new socket object, which
\* no thread holds and no pool has idle
NewConn ==
    CHOOSE n \in 1..(NumCallers + pool_size * Len(host_list)) :
        LET live == IdleConns \cup {e.conn : e \in BagToSet(workers)}
        IN  n \notin live /\ \A m \in 1..(n - 1) : m \in live

InitPool ==
    /\ hash = BuildHash(EmptyHash, host_list)
    /\ pools = [s \in Servers |-> <<>>]
    /\ store = NoStore
    /\ tasks = <<>>
    /\ workers = EmptyBag
    /\ call = NoCall
    /\ ret = NoResult
    /\ nops = 0
    /\ quits = 0
    /\ clients = NoClients

\* pooled_connection up to the yield: conn = pool.get(), by a thread that
\* is not inside a block
Acquire(s) ==
    /\ ret.op = "none"
    /\ BagCardinality(workers) < NumCallers
    /\ \E g \in {IF pools[s] = <<>> THEN [conn |-> NewConn, rest |-> <<>>]
                 ELSE PoolGet(pools[s])} :
           /\ workers' = workers (+) SetToBag({[node |-> s,
                                                conn |-> g.conn]})
           /\ pools' = [pools EXCEPT ![s] = g.rest]
    /\ UNCHANGED <<clients, quits, hash, store, tasks, call, ret, nops>>

\* pooled_connection after the yield, the block having ended without an
\* exception: else: pool.put(conn)
Release(e) ==
    /\ ret.op = "none"
    /\ BagIn(e, workers)
    /\ pools' = [pools EXCEPT ![e.node] = put(@, e.conn, pool_size)]
    /\ workers' = workers (-) SetToBag({e})
    /\ ret' = [op |-> "exit", raised |-> FALSE, node |-> e.node,
               conn |-> e.conn]
    /\ UNCHANGED <<clients, quits, hash, store, tasks, call, nops>>

\* pooled_connection after the yield, the block having raised: except
\* Exception: raise. Nothing is put, and the thread lets the connection go.
Abort(e) ==
    /\ ret.op = "none"
    /\ BagIn(e, workers)
    /\ workers' = workers (-) SetToBag({e})
    /\ ret' = [op |-> "exit", raised |-> TRUE, node |-> e.node,
               conn |-> e.conn]
    /\ UNCHANGED <<clients, quits, hash, pools, store, tasks, call, nops>>

\* pool.clear_pool(), which instance_reconnect calls on each pool
Clear(s) ==
    /\ ret.op = "none"
    /\ pools' = [pools EXCEPT ![s] = clear_pool(@)]
    /\ pools' # pools
    /\ UNCHANGED <<clients, quits, hash, store, tasks, workers, call, ret,
                   nops>>

\* The exit has been seen.
Seen ==
    /\ ret.op = "exit"
    /\ ret' = NoResult
    /\ UNCHANGED <<clients, quits, hash, pools, store, tasks, workers, call,
                   nops>>

NextPool ==
    \/ \E s \in Servers : Acquire(s)
    \/ \E e \in BagToSet(workers) : Release(e)
    \/ \E e \in BagToSet(workers) : Abort(e)
    \/ \E s \in Servers : Clear(s)
    \/ Seen

SpecPool == InitPool /\ [][NextPool]_vars

\* C22: in every interleaving of acquire, release and clear, no connection
\* is held by two threads, no connection a thread holds is in the idle set
\* of any pool, and no connection is twice in the idle sets.
C22_ExclusiveOwnership ==
    /\ \A e \in BagToSet(workers) :
          /\ CopiesIn(e, workers) = 1
          /\ \A f \in BagToSet(workers) : f.conn = e.conn => f = e
          /\ e.conn \notin IdleConns
    /\ \A s, r \in Servers : \A i \in DOMAIN pools[s], j \in DOMAIN pools[r] :
          (s # r \/ i # j) => pools[s][i] # pools[r][j]

\* Witness of C22: two threads hold different connections of the same
\* pool while that pool has a third connection idle.
C22_Witness ==
    /\ \E e, f \in BagToSet(workers) :
          e.node = 1 /\ f.node = 1 /\ e.conn # f.conn
    /\ Len(pools[1]) = 1

\* C29 as stated: a connection obtained through pooled_connection is idle
\* in its pool again after the block if and only if the block ended without
\* raising; when the block raised, the idle sets are as they were.
C29_PutBackIffNoRaise ==
    [][(ret.op = "none" /\ ret'.op = "exit")
       => IF ret'.raised
          THEN pools' = pools /\ ret'.conn \notin IdleConns'
          ELSE pools'[ret'.node] = Append(pools[ret'.node], ret'.conn)]_vars

\* C29, amended: when the block ends without raising, the connection is put
\* at the end of its pool's idle set if that holds fewer than pool_size
\* connections, and is dropped, the idle set staying as it was, if it is
\* full; when the block raises, the connection is not put back and the
\* idle sets are as they were.
C29_PutBackUnlessFullOrRaised ==
    [][(ret.op = "none" /\ ret'.op = "exit")
       => LET s == ret'.node
              c == ret'.conn
          IN  /\ \A r \in Servers : r # s => pools'[r] = pools[r]
              /\ IF ret'.raised \/ Len(pools[s]) >= pool_size
                 THEN pools'[s] = pools[s] /\ c \notin IdleConns'
                 ELSE pools'[s] = Append(pools[s], c)]_vars

\* Witness of C29: a block has ended without raising, and its connection
\* is not idle in its pool, which was full.
C29_Witness ==
    /\ ret.op = "exit"
    /\ ~ret.raised
    /\ ret.conn \notin IdleConns
    /\ Len(pools[ret.node]) = pool_size

(***************************************************************************)
(* The tasks of a multi-operation one statement at a time: a worker writes *)
(* its requests, and then each turn of its while-loop reads one response   *)
(* and records it in response_map or failure_list, as one step; between    *)
(* two such steps of a worker the other workers take theirs.               *)
(***************************************************************************)
\* per_host_fn / per_host_delete up to the while-loop: the requests are
\* written to the connection the worker holds, and the server answers.
TaskWrite(w) ==
    /\ workers[w].busy
    /\ ~workers[w].blocked
    /\ "resps" \notin DOMAIN workers[w]
    /\ \E node \in {workers[w].node} :
       \E reqs \in {Requests(call.op, workers[w].task)} :
       \E run \in {ServerRun(store[node], reqs)} :
           /\ store' = [store EXCEPT ![node] = run.st]
           /\ call' = [call EXCEPT
                         !.frames = @ + Len(reqs),
                         !.sent = IF reqs = <<>> THEN @ ELSE @ \cup {node}]
           /\ workers' = [workers EXCEPT ![w] = @ @@ [resps |-> run.resps]]
    /\ UNCHANGED <<clients, quits, hash, pools, tasks, ret, nops>>

\* One turn of the while-loop: sockresponse reads the next response, and
\* the statement response_map[key] = value or failure_list.append(key)
\* records it in the container all the workers share. The interpreter
\* executes such a statement as a whole before another thread runs.
TaskRead(w) ==
    /\ workers[w].busy
    /\ ~workers[w].blocked
    /\ "resps" \in DOMAIN workers[w]
    /\ \E t \in {workers[w].task}, node \in {workers[w].node},
          resps \in {workers[w].resps} :
       \E next \in {IF resps = <<>> THEN <<>> ELSE <<Head(resps)>>},
          last_i \in {Len(t.keys) - 1} :
       \E read \in {IF call.op = "get_multi"
                    THEN ReadGet(next, t.keys, last_i, call.rmap)
                         @@ [failures |-> call.failures]
                    ELSE ReadFailures(call.op, next, t.keys, last_i,
                                      call.failures)
                         @@ [rmap |-> call.rmap]} :
       \E end \in {IF read.end = "blocked" /\ Len(resps) > 1 THEN "more"
                   ELSE read.end} :
           /\ call' = [call EXCEPT
                         !.rmap = read.rmap,
                         !.failures = read.failures,
                         !.refused = @ \cup read.refused,
                         !.errs = @ \cup read.errs \cup
                                  (IF end = "ValueError" THEN {end}
                                   ELSE {})]
           /\ pools' = IF end = "done"
                       THEN [pools EXCEPT ![node] =
                                PoolPut(@, workers[w].conn)]
                       ELSE pools
           /\ workers' = [workers EXCEPT ![w] =
                            IF end = "more"
                            THEN [@ EXCEPT !.resps = Tail(resps)]
                            ELSE after_task(@, end)]
    /\ UNCHANGED <<clients, quits, hash, store, tasks, ret, nops>>

NextWrites ==
    \/ CanCall /\ \E op \in {"get_multi", "delete_multi"}, ks \in KeyLists,
                     hk \in HashKeys : CallKeys(op, ks, hk)
    \/ CanCall /\ \E op \in {"set_multi", "add_multi", "replace_multi"},
                     m \in StrMaps, hk \in HashKeys : CallMap(op, m, hk)
    \/ Consume
    \/ Submit
    \/ \E w \in Workers : TaskStart(w)
    \/ \E w \in Workers : TaskWrite(w)
    \/ \E w \in Workers : TaskRead(w)
    \/ Return

SpecWrites == Init /\ [][NextWrites]_vars

SpecLive ==
    /\ Init
    /\ [][NextColocate]_vars
    /\ WF_vars(Submit)
    /\ \A w \in Workers : WF_vars(TaskStart(w)) /\ WF_vars(TaskRun(w))
    /\ WF_vars(Return)

\* C24: every multi-operation that has been called eventually returns,
\* whatever its key collection (the empty one too) and hashkey, the servers
\* answering every loud request they receive.
C24_EveryMultiOpReturns == call.active ~> ~call.active

(***************************************************************************)
(* The batches and the groups of the multi-operations, as properties of    *)
(* Spec.                                                                   *)
(***************************************************************************)

\* C25: in every multi-operation, no batch of requests written to one
\* connection before its responses are read has more than ChunkSize
\* requests (ChunkSize stands for the 1000 of the code).
C25_BatchAtMostChunkSize ==
    call.active => \A b \in call.batches : Len(b.reqs) <= ChunkSize

\* C26: without a hashkey a multi-operation groups its keys by server,
\* whatever connections the pools have idle. When the grouping is done and
\* no task has been submitted yet, the tasks to submit are the groups (for
\* get_multi, the chunks of the groups): the keys of one task have the same
\* server, the keys of two tasks of an operation other than get_multi have
\* different servers, and a worker that runs a task holds a connection of
\* the server of the task's keys.
C26_GroupsAreServers ==
    (call.active /\ ~Truthy(call.hashkey))
    => /\ \A w \in Workers :
             workers[w].busy
             => \A a \in DOMAIN workers[w].task.keys :
                   get_node(hash, workers[w].task.keys[a]) = workers[w].node
       /\ (call.batches = {} /\ unfinished_tasks = 0)
          => \A i, j \in DOMAIN call.todo :
             \A a \in DOMAIN call.todo[i].keys,
                b \in DOMAIN call.todo[j].keys :
                LET same == get_node(hash, call.todo[i].keys[a])
                               = get_node(hash, call.todo[j].keys[b])
                IN  /\ i = j => same
                    /\ (i # j /\ call.op # "get_multi") => ~same

\* The orders in which the responses of a batch can arrive, the response
\* to the terminator last
ArrivalOrders(resps) ==
    {[i \in DOMAIN resps |-> IF i = Len(resps) THEN resps[i] ELSE resps[f[i]]]
        : f \in Permutations(1..(Len(resps) - 1))}

\* What the read loop of the task of worker w makes of the responses p
ReadBy(w, p) ==
    LET t == workers[w].task
    IN  IF call.op = "get_multi"
        THEN ReadGet(p, t.keys, Len(t.keys) - 1, call.rmap)
             @@ [failures |-> call.failures]
        ELSE ReadFailures(call.op, p, t.keys, Len(t.keys) - 1,
                          call.failures)
             @@ [rmap |-> call.rmap]

\* The responses the server sends for the batch of worker w
ResponsesTo(w) ==
    ServerRun(store[workers[w].node],
              Requests(call.op, workers[w].task)).resps

\* The response is one the read loop records a failure for
Failing(r) ==
    IF call.op = "delete_multi" THEN r.status # R_no_error
    ELSE failure_test(call.op, r.status)

\* The number of occurrences of key k in the list l
Count(l, k) == Cardinality({i \in DOMAIN l : l[i] = k})

C28_IdleConnectionsHaveNoTraffic ==
    /\ \A w \in Workers :
          (call.active /\ workers[w].busy /\ ~workers[w].blocked)
          => LET resps == ResponsesTo(w)
                 read == ReadBy(w, resps)
             IN  read.end = "done"
                 => /\ Len(read.seen) = Len(resps)
                    /\ read.seen = [i \in DOMAIN resps |-> resps[i].opaque]
    /\ call.active
       => \A b \in call.batches :
             b.end = "done"
             => /\ b.seen # <<>>
                /\ b.seen[Len(b.seen)] = b.reqs[Len(b.reqs)].opaque

\* Witness of C28: a delete_multi task has written two requests and read
\* the responses to both, and its connection is idle in the pool again.
C28_Witness ==
    /\ call.active
    /\ call.op = "delete_multi"
    /\ [reqs |-> <<[opcode |-> M_deleteq, opaque |-> 0],
                   [opcode |-> M_delete, opaque |-> 1]>>,
        seen |-> <<0, 1>>, end |-> "done"] \in call.batches
    /\ \E s \in Servers : pools[s] = <<"open">> /\ s \in call.sent

\* C30: a task that raises does not cost a worker. There are NumThreads
\* workers at all times; a worker is kept from taking tasks only by a task
\* that has not ended (its read blocks), never by one that raised; and a
\* multi-operation in which a task raised has returned from wait() with
\* the queue empty and every worker ready for the next task.
C30_WorkersSurviveFailingTasks ==
    /\ DOMAIN workers = Workers
    /\ Cardinality(Workers) = NumThreads
    /\ \A w \in Workers :
          (workers[w].busy /\ workers[w].blocked)
          => (call.active /\ \E b \in call.batches : b.end = "blocked")
    /\ (ret.op \in {"get_multi", "delete_multi", "set_multi", "add_multi",
                    "replace_multi"} /\ "ValueError" \in ret.errs)
       => (tasks = <<>> /\ \A w \in Workers : workers[w] = Idle)

\* Witness of C30: a get_multi one of whose two tasks raised ValueError has
\* returned, with the value the other task read, and both workers are
\* idle.
C30_Witness ==
    /\ ret.op = "get_multi"
    /\ ~ret.raised
    /\ "ValueError" \in ret.errs
    /\ ret.sent = Servers
    /\ ret.result.kind = "map"
    /\ ret.result.m # << >>
    /\ \A w \in Workers : workers[w] = Idle

(***************************************************************************)
(* Two callers on one Client. Each runs one get_multi or delete_multi; the *)
(* calls share the ring, the connection pools, the task queue and the      *)
(* workers. call[c] is the multi-operation of caller c, with the container *)
(* that its _gmulti_helper or delete_multi created and handed to its       *)
(* tasks, and ret[c] what the caller got back. The servers hold one key    *)
(* each when the calls begin.                                              *)
(***************************************************************************)
TwoCallers == {1, 2}

InitTwo ==
    /\ hash = BuildHash(EmptyHash, host_list)
    /\ pools = [s \in Servers |-> <<>>]
    /\ store = [s \in Servers |->
                  [k \in {x \in {1, 3} : get_node(hash, x) = s} |->
                      Serialize(VStr)]]
    /\ tasks = <<>>
    /\ workers = [w \in Workers |-> Idle]
    /\ call = [c \in TwoCallers |-> NoCall]
    /\ ret = [c \in TwoCallers |-> NoResult]
    /\ nops = 0
    /\ quits = 0
    /\ clients = NoClients

\* Caller c enters get_multi or delete_multi: the container is created and
\* the keys are grouped, as in CallMulti; each task is made with the
\* container of this call among its arguments.
CallTwo(c, op, keys) ==
    /\ ~call[c].active
    /\ ret[c].op = "none"
    /\ \E g \in {GroupKeys(keys, hash, Tagged(pools), <<>>)} :
       \E groups \in {[i \in DOMAIN g.groups |-> g.groups[i].keys]} :
       \E todo \in {IF op = "get_multi" THEN GetTasks(groups, None)
                    ELSE GroupTasks(groups, NoMap, None)} :
           /\ pools' = Untagged(g.pools)
           /\ IF g.ok
              THEN /\ call' = [call EXCEPT ![c] =
                        Started(op, keys, NoMap, None,
                                [i \in DOMAIN todo |->
                                    todo[i] @@ [caller |-> c]])]
                   /\ UNCHANGED ret
              ELSE /\ ret' = [ret EXCEPT ![c] =
                        Done(MultiArgs(op, keys, NoMap, None),
                             Raised("key_too_large", R_key_too_large, 0),
                             {"key_too_large"}, {}, store)]
                   /\ UNCHANGED call
    /\ UNCHANGED <<clients, quits, hash, store, tasks, workers, nops>>

\* ThreadPool.add_task in the loop of caller c
SubmitTwo(c) ==
    /\ call[c].active
    /\ call[c].todo # <<>>
    /\ Len(tasks) < NumThreads
    /\ tasks' = Append(tasks, Head(call[c].todo))
    /\ call' = [call EXCEPT ![c].todo = Tail(@)]
    /\ UNCHANGED <<clients, quits, hash, pools, store, workers, ret, nops>>

\* per_host_fn / per_host_delete as in TaskRun: the worker writes into the
\* container it was given, that of the caller whose task it runs.
TaskRunTwo(w) ==
    /\ workers[w].busy
    /\ ~workers[w].blocked
    /\ \E t \in {workers[w].task}, node \in {workers[w].node} :
       \E c \in {t.caller} :
       \E reqs \in {Requests(call[c].op, t)}, last_i \in {Len(t.keys) - 1} :
       \E run \in {ServerRun(store[node], reqs)} :
       \E read \in {IF call[c].op = "get_multi"
                    THEN ReadGet(run.resps, t.keys, last_i, call[c].rmap)
                         @@ [failures |-> call[c].failures]
                    ELSE ReadFailures(call[c].op, run.resps, t.keys, last_i,
                                      call[c].failures)
                         @@ [rmap |-> call[c].rmap]} :
           /\ store' = [store EXCEPT ![node] = run.st]
           /\ call' = [call EXCEPT
                         ![c].rmap = read.rmap,
                         ![c].failures = read.failures,
                         ![c].frames = @ + Len(reqs),
                         ![c].sent = @ \cup {node},
                         ![c].refused = @ \cup read.refused,
                         ![c].errs = @ \cup read.errs \cup
                                     (IF read.end = "ValueError"
                                      THEN {read.end} ELSE {})]
           /\ pools' = IF read.end = "done"
                       THEN [pools EXCEPT ![node] =
                                PoolPut(@, workers[w].conn)]
                       ELSE pools
           /\ workers' = [workers EXCEPT ![w] = after_task(@, read.end)]
    /\ UNCHANGED <<clients, quits, hash, tasks, ret, nops>>

\* ThreadPool.wait in caller c returns once the queue the callers share
\* has no unfinished task, and c gets its container.
ReturnTwo(c) ==
    /\ call[c].active
    /\ call[c].todo = <<>>
    /\ unfinished_tasks = 0
    /\ ret' = [ret EXCEPT ![c] =
          Done(MultiArgs(call[c].op, call[c].keys, NoMap, None),
               Returned(IF call[c].op = "get_multi" THEN RMap(call[c].rmap)
                        ELSE RList(call[c].failures), call[c].frames),
               call[c].errs, call[c].refused, call[c].pre)]
    /\ call' = [call EXCEPT ![c] = NoCall]
    /\ UNCHANGED <<clients, quits, hash, pools, store, tasks, workers, nops>>

SpecTwo ==
    InitTwo
    /\ [][\/ \E c \in TwoCallers, op \in {"get_multi", "delete_multi"},
             ks \in {l \in KeyLists : Len(l) <= 2} : CallTwo(c, op, ks)
          \/ \E c \in TwoCallers : SubmitTwo(c)
          \/ \E w \in Workers : TaskStart(w)
          \/ \E w \in Workers : TaskRunTwo(w)
          \/ \E c \in TwoCallers : ReturnTwo(c)]_vars

\* C31: with two callers in multi-operations at the same time, the
\* container a caller gets back holds entries for keys of its own call
\* only, and the call is complete when it returns: a request has been
\* written for each of its keys, none of its tasks is queued or with a
\* worker, and every key it got a non-zero status for and nothing else is
\* in the list a delete_multi returns.
C31_OwnEntriesOnlyAndComplete ==
    \A c \in TwoCallers :
       (ret[c].op # "none" /\ ~ret[c].raised)
       => /\ ret[c].result.kind = "map"
             => DOMAIN ret[c].result.m \subseteq Range(ret[c].keys)
          /\ ret[c].result.kind = "list"
             => /\ Range(ret[c].result.l) \subseteq Range(ret[c].keys)
                /\ Range(ret[c].result.l) = ret[c].refused
          /\ ret[c].frames = Len(ret[c].keys)
          /\ \A i \in DOMAIN tasks : tasks[i].caller # c
          /\ \A w \in Workers :
                workers[w].busy => workers[w].task.caller # c

\* Witness of C31: caller 1 has got back the value of key 1 from its
\* get_multi while the delete_multi of caller 2, on other keys, has had a
\* task run and has another still to submit.
C31_Witness ==
    /\ ret[1].op = "get_multi"
    /\ ~ret[1].raised
    /\ DOMAIN ret[1].result.m = {1}
    /\ call[2].active
    /\ call[2].op = "delete_multi"
    /\ call[2].keys = <<2, 3>>
    /\ call[2].frames > 0
    /\ call[2].todo # <<>>

(***************************************************************************)
(* chash.py on its own: any sequence of add_node calls on a ring, the      *)
(* calls of Client.__init__ and calls that add a node the ring has.        *)
(***************************************************************************)
\* hash.add_node(node) with a node that has been added to the ring of c
\* before; the rings considered hold up to one node's hash-points more
\* than the endpoints give.
AddAgain(c, a) ==
    /\ a \in DOMAIN clients[c].endpoint
    /\ Len(clients[c].hash.sorted_keys)
          < replicas * (Cardinality(Endpoints) + 1)
    /\ clients' = [clients EXCEPT ![c].hash = add_node(@, a)]
    /\ UNCHANGED <<hash, pools, store, tasks, workers, call, ret, nops,
                   quits>>

SpecAddNode ==
    InitRing /\ [][NextRing \/ \E c \in ClientIds, a \in Addresses :
                                  AddAgain(c, a)]_vars

\* C32: after any sequence of add_node calls, repeated ones of the same
\* node included, sorted_keys is strictly increasing and its elements are
\* exactly the keys of the ring mapping.
C32_SortedKeysStrictAndExact ==
    \A c \in ClientIds :
       LET h == clients[c].hash
       IN  /\ \A i \in 1..(Len(h.sorted_keys) - 1) :
                 h.sorted_keys[i] < h.sorted_keys[i + 1]
           /\ Range(h.sorted_keys) = DOMAIN h.ring

(***************************************************************************)
(* The bound of the idle sets, as a property of SpecPool.                  *)
(***************************************************************************)

\* C33: the idle set of a pool never holds more than pool_size connections
\* (pool_size stands for the 5 of a pool made without one); and a release
\* to a pool whose idle set is full ends without an error, leaves every
\* idle set as it was and lets the connection go.
C33_IdleSetBounded ==
    /\ [](\A s \in Servers : Len(pools[s]) <= pool_size)
    /\ [][(/\ ret.op = "none"
           /\ ret'.op = "exit"
           /\ ~ret'.raised
           /\ Len(pools[ret'.node]) = pool_size)
          => (pools' = pools /\ ret'.conn \notin IdleConns')]_vars

\* Witness of C33: a connection has been released to a pool that had
\* pool_size connections idle; the pool has the same ones idle, and the
\* released one is not among them.
C33_Witness ==
    /\ ret.op = "exit"
    /\ ~ret.raised
    /\ \E s \in Servers :
          /\ s = ret.node
          /\ Len(pools[s]) = pool_size
          /\ \A i \in DOMAIN pools[s] : pools[s][i] # ret.conn
    /\ workers = EmptyBag

(***************************************************************************)
(* The ring under the operations of a constructed Client: the wrapped      *)
(* single-key operations with their recovery path, the multi-operations,   *)
(* and the fan-out operations (close is quit followed by a close of each   *)
(* node). The steps of a call are those of its kind.                       *)
(***************************************************************************)
SpecClient ==
    Init
    /\ [][\/ CanCall /\ \E op \in WrappedOps, k \in Keys :
                           Invoke(op, k, VStr)
          \/ "phase" \in DOMAIN call /\ Recover
          \/ "phase" \in DOMAIN call /\ Retry
          \/ \E s \in Servers : Stale(s)
          \/ CanCall /\ \E op \in {"get_multi", "delete_multi"},
                           ks \in {l \in KeyLists : Len(l) <= 2},
                           hk \in HashKeys : CallKeys(op, ks, hk)
          \/ CanCall /\ \E op \in {"set_multi", "add_multi",
                                   "replace_multi"},
                           m \in {x \in KVMaps : Range(x) \subseteq {VStr}},
                           hk \in HashKeys : CallMap(op, m, hk)
          \/ CanCall /\ \E op \in {"quit", "flush_all", "noop"} : Fanout(op)
          \/ CanCall /\ \E op \in {"stats", "version"} : FanoutCall(op)
          \/ "todo" \in DOMAIN call /\ Submit
          \/ ("todo" \in DOMAIN call /\ call.op \notin FanoutOps)
             /\ \E w \in Workers : TaskStart(w)
          \/ \E w \in Workers : TaskRun(w)
          \/ ("todo" \in DOMAIN call /\ call.op \notin FanoutOps) /\ Return
          \/ ("todo" \in DOMAIN call /\ call.op \in FanoutOps)
             /\ \E w \in Workers : FanTask(w)
          \/ ("todo" \in DOMAIN call /\ call.op \in FanoutOps)
             /\ FanoutReturn
          \/ Consume]_vars

\* C34: once the Client is constructed, no step of any operation changes
\* the ring: at every moment sorted_keys is the increasing sequence of the
\* hash-points of the replicas of the servers of host_list, the mapping
\* takes the hash-point of each replica to its server and has no other
\* key, and single_node is false when there is more than one server; so
\* every key is routed to the same server at every step, a worker without
\* a given hashkey holds a connection of the server of its first key, and
\* a single-key operation touches the pool and the items of no server but
\* that of its key.
C34_RingNeverChanges ==
    /\ [](/\ \A i \in 1..(Len(hash.sorted_keys) - 1) :
                hash.sorted_keys[i] < hash.sorted_keys[i + 1]
          /\ Range(hash.sorted_keys) = DOMAIN hash.ring
          /\ DOMAIN hash.ring =
                {hashkey(Label(s, i)) : s \in Servers, i \in 0..(replicas - 1)}
          /\ \A s \in Servers, i \in 0..(replicas - 1) :
                hash.ring[hashkey(Label(s, i))] = s
          /\ hash.single_node = ~(Cardinality(Servers) > 1)
          /\ \A w \in Workers :
                (workers[w].busy /\ ~Truthy(workers[w].task.hashkey))
                => workers[w].node = get_node(hash, workers[w].task.keys[1]))
    /\ [][/\ hash' = hash
          /\ \A k \in Keys : get_node(hash', k) = get_node(hash, k)
          /\ (ret.op = "none" /\ ret'.op \in WrappedOps)
             => \A s \in Servers \ {get_node(hash, ret'.key)} :
                   store'[s] = store[s] /\ pools'[s] = pools[s]]_vars

\* Witness of C34: a wrapped single-key operation has gone through the
\* recovery path, which cleared the pool of every node of the ring, and
\* its second run has completed, after an earlier call of the client.
C34_Witness ==
    /\ ret.op \in WrappedOps
    /\ "invocations" \in DOMAIN ret
    /\ ret.invocations = 2
    /\ nops = MaxOps
    /\ hash = BuildHash(EmptyHash, host_list)

====
